---- MODULE Spec2Model ----
(***************************************************************************)
(* A model of plugins/modules/aws_s3.py: one invocation of main() as a     *)
(* state machine.  Every remote call (boto3 client method) is one step     *)
(* whose answer is chosen by the environment; the local filesystem is      *)
(* answered the same way.  `calls` records the client methods issued and   *)
(* `invoked` the module functions entered.                                 *)
(***************************************************************************)
EXTENDS Integers, Sequences, FiniteSets, TLC

\* ---------------------------------------------------------------- bounds
\* retries is an int parameter (argument_spec, type='int'): -1 .. MaxRetries
MaxRetries == 1
\* abstract file contents 1 .. NContents (an MD5 digest stands for its content)
NContents == 2
\* timestamps 0 .. MaxTime
MaxTime == 2
\* multipart ETags carry 1 .. MaxParts parts
MaxParts == 1
\* wait_tags_are_applied: range(0, 12)
TagPolls == 12
\* max_keys in mode list: 1 .. MaxKeysBound
MaxKeysBound == 2
\* argument_spec: max_keys default
DefaultMaxKeys == 1000
\* pages a listing of the bucket has at most
MaxPages == 2

VARIABLES
    params,             \* module.params (and module.check_mode)
    HAS_MD5,            \* module_utils.s3.HAS_MD5
    overwrite,          \* main's local after normalisation
    pc,                 \* position in main() and its callees
    calls,              \* boto3 client methods issued so far
    invoked,            \* module functions entered so far
    result,             \* exit_json / fail_json outcome
    bucketrtn,          \* bucket_check's return
    keyrtn,             \* key_check's return ("None" before it is assigned)
    dest_exists,        \* path_check(dest)
    s3_etag,            \* etag_compare's s3_etag   (Option)
    local_etag,         \* etag_compare's local_etag (Option)
    s3_last_modified,   \* is_local_object_latest's locals (Option)
    local_last_modified,
    x,                  \* download_s3file's loop index
    sig_4,              \* main retried download_s3file with sig_4=True
    transfers,          \* download_file / upload_file / upload_fileobj calls issued
    remote_tags,        \* the object's tag set as the store answers it
    pending_tags,       \* a written tag set not yet visible to reads (Option)
    et,                 \* ensure_tags / wait_tags_are_applied locals
    cont,               \* where ensure_tags returns to
    i,                  \* index of the "for acl in permission" loops
    applications,       \* what each finished application of ensure_tags returned
    acls,               \* main's locals bucket_acl and object_acl
    warnings,           \* what module.warn was called for
    s_etag,             \* copy_object_to_bucket's s_etag (Option)
    d_etag,             \* main's d_etag in mode copy (Option)
    prefix,             \* main's locals prefix, marker and max_keys
    marker,
    max_keys,
    bucket_keys,        \* the keys the bucket holds
    s3_keys,            \* list_keys' keys, page after page
    token,              \* the paginator's position (Option: the last key listed)
    key_found,          \* head_object answered main's key_check with the object
    bucket_exists,      \* delete_bucket's exists ("None" before it is assigned)
    pages,              \* pages the listing of delete_bucket has yielded
    nonempty,           \* how many of them held keys
    deleted,            \* delete_objects calls issued
    in_store            \* what the invocations so far created in the store (and,
                        \* for a second invocation, what the first found there)

vars == <<params, HAS_MD5, overwrite, pc, calls, invoked, result, bucketrtn,
          keyrtn, dest_exists, s3_etag, local_etag, s3_last_modified,
          local_last_modified, x, sig_4, transfers, remote_tags, pending_tags,
          et, cont, i, applications, acls, warnings, s_etag, d_etag,
          prefix, marker, max_keys, bucket_keys, s3_keys, token, key_found, bucket_exists, pages,
          nonempty,
          deleted, in_store>>

cmpVars == <<s3_etag, local_etag, s3_last_modified, local_last_modified>>
dlVars == <<x, sig_4, transfers>>
tagVars == <<remote_tags, pending_tags, et, cont, i, applications>>
copyVars == <<s_etag, d_etag>>
listVars == <<prefix, marker, max_keys, bucket_keys, s3_keys, token>>
delVars == <<bucket_exists, pages, nonempty, deleted>>
mainVars == <<acls, warnings, copyVars, listVars, key_found, delVars, in_store>>

\* ------------------------------------------------------------- values
None == <<>>
Some(v) == <<v>>
IsNone(o) == o = <<>>
The(o) == o[1]

Contents == 1 .. NContents
Times == 0 .. MaxTime

\* An ETag token as the store sends it: the digest of a content, the number
\* of parts (0: a plain MD5), and whether the token is wrapped in quotes.
Etags == [quoted : BOOLEAN, digest : Contents, parts : 0 .. MaxParts]

TagKeys == {"k1", "k2"}
TagVals == {"a", "b"}
TagMaps == UNION {[K -> TagVals] : K \in SUBSET TagKeys}
EmptyTags == CHOOSE m \in TagMaps : DOMAIN m = {}

Running == [outcome |-> "running", changed |-> "absent", msg |-> ""]
ExitJson(msg, changed) ==
    [outcome |-> "exit", changed |-> IF changed THEN "True" ELSE "False", msg |-> msg]
FailJson(msg) == [outcome |-> "fail", changed |-> "absent", msg |-> msg]
\* an exception no handler catches: the run ends with a traceback
Crash(msg) == [outcome |-> "crash", changed |-> "absent", msg |-> msg]

\* ensure_tags' locals: tags (the target), current_tags_dict, changed; read is
\* what line 873 returned, polls counts wait_tags_are_applied's reads
NoEt == [tags |-> None, current_tags_dict |-> None, read |-> None, changed |-> FALSE,
         polls |-> 0, warned |-> FALSE]

\* ------------------------------------------------------- parameter space
Modes == {"get", "put", "copy", "create", "delete", "delobj", "geturl", "getstr", "list"}
OverwriteValues == {"always", "never", "different", "latest", "yes", "no"}
SrcKinds == {"src", "content", "none"}
\* permission is a list of canned ACL names
Permissions == {<<>>, <<"private">>, <<"aws-exec-read">>, <<"bogus">>}
object_canned_acl == {"private", "public-read", "public-read-write", "aws-exec-read",
                      "authenticated-read", "bucket-owner-read",
                      "bucket-owner-full-control"}
bucket_canned_acl == {"private", "public-read", "public-read-write", "authenticated-read"}
Filter(seq, S) == SelectSeq(seq, LAMBDA a : a \in S)
bucket_acl(perm) == Filter(perm, bucket_canned_acl)
object_acl(perm) == Filter(perm, object_canned_acl)
error_acl(perm) == SelectSeq(perm, LAMBDA a : a \notin bucket_canned_acl /\ a \notin object_canned_acl)

\* bucket_acl and object_acl before main line 1021 assigns them
NoAcls == [bucket_acl |-> <<>>, object_acl |-> <<>>]

\* module.boolean on the documented boolean spellings
boolean(v) == v = "yes"

\* the object parameter: absent, empty, or a key
ObjectValues == {None, Some(""), Some("key")}
\* Python truthiness of an optional string
Truthy(o) == ~IsNone(o) /\ The(o) # ""
\* s3_url after line 1002 (the parameter, else the S3_URL environment variable)
AwsUrl == "https://s3.amazonaws.com"
UrlValues == {None, Some(AwsUrl), Some("https://rgw.example.com")}

\* object keys: strings over a two-letter alphabet, in alphabetical order
\* <<1>>, <<1, 1>>, <<1, 2>>, <<2>>; "" is the empty sequence
Keys == {<<1>>, <<1, 1>>, <<1, 2>>, <<2>>}
Prefixes == {<<>>, <<1>>}
Markers == {<<>>, <<1>>, <<1, 1>>}

ParamSpace ==
    [mode : Modes,
     overwrite : OverwriteValues,
     check_mode : BOOLEAN,
     retries : -1 .. MaxRetries,
     ignore_nonexistent_bucket : BOOLEAN,
     src_kind : SrcKinds,
     permission : Permissions,
     tags : {None, Some([k1 |-> "a"])},
     purge_tags : BOOLEAN,
     object : ObjectValues,
     rgw : BOOLEAN,
     s3_url : UrlValues,
     dualstack : BOOLEAN]

\* Parameters a mode never reads are held at their defaults (retries, which
\* mode put never reads, is also given its largest value there).
Relevant(p) ==
    /\ p.mode = "get" => /\ p.src_kind = "none"
                         /\ p.permission = <<"private">>
                         /\ p.tags = None
                         /\ p.purge_tags
    /\ p.mode = "put" => /\ p.retries \in {0, MaxRetries}
                         /\ p.retries # 0 => p.tags = None
    /\ p.mode \in {"get", "put", "copy", "geturl", "getstr"} => p.object = Some("key")
    /\ p.mode = "list" => p.object = None
    /\ p.mode \in {"geturl", "getstr", "list"} => /\ p.permission = <<"private">>
                                                  /\ p.tags = None
                                                  /\ p.purge_tags
    /\ p.mode \notin {"delete", "delobj"} =>
          /\ p.rgw = FALSE
          /\ p.s3_url = None
          /\ p.dualstack = FALSE
    /\ p.mode \notin {"get", "put"} => /\ p.overwrite = "always"
                                       /\ p.retries = 0
                                       /\ p.src_kind = "none"
    /\ p.mode \in {"delete", "delobj"} => /\ p.tags = None
                                          /\ p.purge_tags

Init ==
    /\ params \in {p \in ParamSpace : Relevant(p)}
    /\ HAS_MD5 \in BOOLEAN
    /\ overwrite = params.overwrite
    /\ pc = "main"
    /\ calls = {}
    /\ invoked = {}
    /\ result = Running
    /\ bucketrtn = FALSE
    /\ keyrtn = "None"
    /\ dest_exists = FALSE
    /\ s3_etag = None
    /\ local_etag = None
    /\ s3_last_modified = None
    /\ local_last_modified = None
    /\ x = 0
    /\ sig_4 = FALSE
    /\ transfers = 0
    /\ remote_tags \in {EmptyTags, [k2 |-> "b"]}
    /\ pending_tags = None
    /\ et = NoEt
    /\ cont = "none"
    /\ i = 1
    /\ applications = <<>>
    /\ acls = NoAcls
    /\ warnings = {}
    /\ s_etag = None
    /\ d_etag = None
    /\ IF params.mode = "list"
       THEN /\ prefix \in Prefixes
            /\ marker \in Markers
            /\ max_keys \in 1 .. MaxKeysBound
            /\ bucket_keys \in SUBSET Keys
       ELSE /\ prefix = <<>>
            /\ marker = <<>>
            /\ max_keys = DefaultMaxKeys
            /\ bucket_keys = {}
    /\ s3_keys = <<>>
    /\ token = None
    /\ key_found = FALSE
    /\ bucket_exists = "None"
    /\ pages = 0
    /\ nonempty = 0
    /\ deleted = 0
    /\ in_store = [bucket |-> FALSE, dirkey |-> FALSE]

\* ------------------------------------------------------------ endings
Finish(r) ==
    /\ result' = r
    /\ pc' = "done"

\* a slip in the normalisation: every boolean spelling read as 'always'
NormaliseOverwrite_BooleanIsAlways(v) ==
    IF v \notin {"always", "never", "different", "latest"} THEN "always" ELSE v

\* ------------------------------------------------------ main: validation
\* lines 970-977: overwrite is normalised, then overwrite=different needs MD5
NormaliseOverwrite(v) ==
    IF v \notin {"always", "never", "different", "latest"}
    THEN IF boolean(v) THEN "always" ELSE "never"
    ELSE v

\* the MD5 guard left out
Md5Unavailable_Unchecked(ow, has_md5) == FALSE

\* line 976
Md5Unavailable(ow, has_md5) == ow = "different" /\ ~has_md5

\* line 968 first: validate_bucket_name (module_utils.s3) accepts the bucket
\* name or ends the run with fail_json
MainValidate ==
    /\ pc = "main"
    /\ \E name_ok \in BOOLEAN :
         IF ~name_ok
         THEN /\ Finish(FailJson("invalid bucket name"))
              /\ UNCHANGED overwrite
         ELSE /\ overwrite' = NormaliseOverwrite(params.overwrite)
              /\ IF Md5Unavailable(overwrite', HAS_MD5)
                 THEN Finish(FailJson("overwrite=different is unavailable: ETag calculation requires MD5 support"))
                 ELSE pc' = "connect" /\ UNCHANGED result
    /\ UNCHANGED <<params, HAS_MD5, mainVars, calls, invoked, bucketrtn, keyrtn, dest_exists,
                   cmpVars, dlVars, tagVars>>

\* the check of line 997 left out
ObjWithDelete_Unchecked(obj, mode) == FALSE

\* line 997: obj and mode == "delete"
ObjWithDelete(obj, mode) == Truthy(obj) /\ mode = "delete"
\* line 1004: dualstack and s3_url is not None and 'amazonaws.com' not in s3_url
DualstackNotAws(dualstack, s3_url) ==
    dualstack /\ ~IsNone(s3_url) /\ The(s3_url) # AwsUrl
\* line 1008: rgw and not s3_url
RgwWithoutUrl(rgw, s3_url) == rgw /\ ~Truthy(s3_url)

\* lines 979-1025: the checks on object, dualstack and rgw; then the
\* connection is built and the permission list is split
MainConnect ==
    /\ pc = "connect"
    /\ CASE ObjWithDelete(params.object, params.mode) ->
              /\ Finish(FailJson("Parameter obj cannot be used with mode=delete"))
              /\ UNCHANGED <<calls, acls>>
         [] DualstackNotAws(params.dualstack, params.s3_url) ->
              /\ Finish(FailJson("dualstack only applies to AWS S3"))
              /\ UNCHANGED <<calls, acls>>
         [] RgwWithoutUrl(params.rgw, params.s3_url) ->
              /\ Finish(FailJson("rgw flavour requires s3_url"))
              /\ UNCHANGED <<calls, acls>>
         [] OTHER ->
              /\ calls' = calls \cup {"boto3_conn"}
              /\ acls' = [bucket_acl |-> bucket_acl(params.permission),
                          object_acl |-> object_acl(params.permission)]
              /\ IF error_acl(params.permission) # <<>>
                 THEN Finish(FailJson("Unknown permission specified"))
                 ELSE pc' = "bucket_check" /\ UNCHANGED result
    /\ UNCHANGED <<params, HAS_MD5, warnings, copyVars, listVars, key_found, delVars, in_store, overwrite, invoked, bucketrtn, keyrtn, dest_exists,
                   cmpVars, dlVars, tagVars>>

HeadAnswers == {"ok", "404", "403", "error"}

\* bucket_check: "True", "False", or the fail_json it ends with
bucket_check(resp, v) ==
    CASE resp = "ok" -> "True"
      [] resp = "404" -> "False"
      [] resp = "403" -> IF v THEN "fail" ELSE "True"
      [] resp = "endpoint" -> "fail_endpoint"
      [] OTHER -> "fail"

\* key_check: "True", "False", or "fail"
key_check(resp, v) ==
    CASE resp = "ok" -> "True"
      [] resp = "404" -> "False"
      [] resp = "403" -> IF v THEN "fail" ELSE "True"
      [] OTHER -> "fail"

validate == ~params.ignore_nonexistent_bucket

\* mode get counted among the modes that may go on without the bucket
SourceBucketMissing_GetExempt(v, mode, exists) ==
    v /\ mode \notin {"create", "put", "delete", "copy", "get"} /\ ~exists

\* line 1030
SourceBucketMissing(v, mode, exists) ==
    v /\ mode \notin {"create", "put", "delete", "copy"} /\ ~exists

\* lines 1028-1031, and the dispatch on mode
MainBucketCheck ==
    /\ pc = "bucket_check"
    /\ calls' = calls \cup {"head_bucket"}
    /\ \E resp \in HeadAnswers \cup {"endpoint"} :
         LET r == bucket_check(resp, validate) IN
         CASE r = "fail" ->
                /\ Finish(FailJson("Failed while looking up bucket (during bucket_check)"))
                /\ UNCHANGED bucketrtn
           [] r = "fail_endpoint" ->
                /\ Finish(FailJson("Invalid endpoint provided"))
                /\ UNCHANGED bucketrtn
           [] OTHER ->
                /\ bucketrtn' = (r = "True")
                /\ IF SourceBucketMissing(validate, params.mode, r = "True")
                   THEN Finish(FailJson("Source bucket cannot be found."))
                   ELSE /\ pc' = CASE params.mode \in {"get", "geturl", "getstr"} ->
                                         "get_key_check"
                                    [] params.mode = "list" -> "list"
                                    [] params.mode = "put" -> "put_validate"
                                    [] params.mode = "delobj" -> "delobj"
                                    [] params.mode = "delete" -> "delete_bucket"
                                    [] params.mode = "create" -> "create"
                                    [] OTHER -> "copy"
                        /\ UNCHANGED result
    /\ UNCHANGED <<params, HAS_MD5, mainVars, overwrite, invoked, keyrtn, dest_exists,
                   cmpVars, dlVars, tagVars>>

\* ------------------------------------------------------------ mode == 'get'
\* lines 1034-1039 (get), 1160-1165 (geturl), 1169-1179 (getstr)
GetKeyCheck ==
    /\ pc = "get_key_check"
    /\ calls' = calls \cup {"head_object"}
    /\ invoked' = invoked \cup {"key_check"}
    /\ \E resp \in HeadAnswers :
         LET r == key_check(resp, validate) IN
         /\ keyrtn' = IF r = "fail" THEN keyrtn ELSE r
         /\ key_found' = (resp = "ok")
         /\ CASE r = "fail" ->
                   Finish(FailJson("Failed while looking up object (during key check)"))
              [] r = "False" -> Finish(FailJson("Key does not exist."))
              [] OTHER ->
                   /\ pc' = CASE params.mode = "get" -> "get_decide"
                               [] params.mode = "geturl" -> "geturl_tags"
                               [] OTHER -> "download_s3str"
                   /\ UNCHANGED result
    /\ UNCHANGED <<params, HAS_MD5, acls, warnings, copyVars, listVars, delVars, in_store,
                   overwrite,
                   bucketrtn, dest_exists, cmpVars, dlVars, tagVars>>

\* the existence of dest left out of the guard
GetCompares_IgnoresDest(exists, ow) == ow # "always"

\* line 1041: dest and path_check(dest) and overwrite != 'always'
GetCompares(exists, ow) == exists /\ ow # "always"

\* lines 1041-1047 up to the comparison each policy asks for
GetDecide ==
    /\ pc = "get_decide"
    /\ \E exists \in BOOLEAN :
         /\ dest_exists' = exists
         /\ IF GetCompares(exists, overwrite)
            THEN CASE overwrite = "never" ->
                        Finish(ExitJson("Local object already exists and overwrite is disabled.", FALSE))
                   [] overwrite = "different" -> pc' = "get_etag" /\ UNCHANGED result
                   [] OTHER -> pc' = "is_local_object_latest" /\ UNCHANGED result
            ELSE pc' = "download_s3file" /\ UNCHANGED result
    /\ UNCHANGED <<params, HAS_MD5, mainVars, overwrite, calls, invoked, bucketrtn, keyrtn,
                   cmpVars, dlVars, tagVars>>

\* --------------------------------------------------- etag_compare, get_etag
\* get_etag (lines 415-425): head_object; a 404 is None, any other error is
\* not caught here nor in main
get_etag ==
    /\ pc = "get_etag"
    /\ invoked' = invoked \cup {"etag_compare", "get_etag"}
    /\ calls' = calls \cup {"head_object"}
    /\ \E resp \in {"ok", "404", "error"} :
         CASE resp = "ok" ->
                /\ \E e \in Etags : s3_etag' = Some(e)
                /\ pc' = "etag_compare"
                /\ UNCHANGED result
           [] resp = "404" ->
                /\ s3_etag' = None
                /\ pc' = "etag_compare"
                /\ UNCHANGED result
           [] OTHER ->
                /\ Finish(Crash("ClientError"))
                /\ UNCHANGED s3_etag
    /\ UNCHANGED <<params, HAS_MD5, mainVars, overwrite, bucketrtn, keyrtn, dest_exists,
                   local_etag, s3_last_modified, local_last_modified, dlVars, tagVars>>

\* module_utils.s3.calculate_etag / calculate_etag_content: the fingerprint of
\* local content c in the scheme the remote token reports (plain MD5, or the
\* hash of the part hashes with the token's part count), always quoted; no
\* fingerprint when MD5 is unavailable
calculate_etag(c, etag) ==
    IF ~HAS_MD5 THEN None
    ELSE Some([quoted |-> TRUE, digest |-> c,
               parts |-> IF IsNone(etag) THEN 0 ELSE The(etag).parts])

\* a comparison that strips the quotes before comparing
EtagsEqual_IgnoresQuotes(remote, local) ==
    IF IsNone(remote) \/ IsNone(local) THEN remote = local
    ELSE The(remote).digest = The(local).digest /\ The(remote).parts = The(local).parts

\* a comparison that never finds the two tokens equal
EtagsEqual_Never(remote, local) == FALSE

\* etag_compare line 412
EtagsEqual(remote, local) == remote = local

\* etag_compare (lines 405-412) and what its caller does with the answer:
\* main lines 1044-1045 (get), 1082-1089 (put)
etag_compare ==
    /\ pc = "etag_compare"
    /\ \E c \in Contents :
         /\ local_etag' = calculate_etag(c, s3_etag)
         /\ IF EtagsEqual(s3_etag, local_etag')
            THEN IF params.mode = "get"
                 THEN /\ Finish(ExitJson("Local and remote object are identical, ignoring. Use overwrite=always parameter to force.", FALSE))
                      /\ UNCHANGED <<params, cont>>
                 ELSE /\ pc' = "ensure_tags"
                      /\ cont' = "get_download_url"
                      /\ UNCHANGED <<result, params>>
            ELSE IF params.mode = "get"
                 THEN /\ pc' = "download_s3file"
                      /\ UNCHANGED <<result, params, cont>>
                 ELSE /\ pc' = "upload_s3file"
                      /\ params' = [params EXCEPT !.permission = acls.object_acl]
                      /\ UNCHANGED <<result, cont>>
    /\ UNCHANGED <<HAS_MD5, mainVars, overwrite, calls, invoked, bucketrtn, keyrtn, dest_exists,
                   s3_etag, s3_last_modified, local_last_modified, dlVars,
                   remote_tags, pending_tags, et, i, applications>>

\* ------------------------------------------------- is_local_object_latest
\* a strict comparison: equal timestamps download again
IsLatest_Strict(s3_time, local_time) == s3_time < local_time

\* line 445
IsLatest(s3_time, local_time) == s3_time <= local_time

\* is_local_object_latest (lines 438-445) with get_s3_last_modified_timestamp
\* (lines 428-435, no handler around head_object), and main lines 1046-1047
is_local_object_latest ==
    /\ pc = "is_local_object_latest"
    /\ invoked' = invoked \cup {"is_local_object_latest", "get_s3_last_modified_timestamp"}
    /\ calls' = calls \cup {"head_object"}
    /\ \E resp \in {"ok", "error"} :
         IF resp = "error"
         THEN /\ Finish(Crash("ClientError"))
              /\ UNCHANGED <<s3_last_modified, local_last_modified>>
         ELSE \E t \in Times, m \in Times :
                /\ s3_last_modified' = Some(t)
                /\ local_last_modified' = Some(m)
                /\ IF IsLatest(t, m)
                   THEN Finish(ExitJson("Local object is latest, ignoreing. Use overwrite=always parameter to force.", FALSE))
                   ELSE pc' = "download_s3file" /\ UNCHANGED result
    /\ UNCHANGED <<params, HAS_MD5, mainVars, overwrite, bucketrtn, keyrtn, dest_exists,
                   s3_etag, local_etag, dlVars, tagVars>>

\* --------------------------------------------------------- download_s3file
\* lines 663-682: check mode, then get_object; main lines 1049-1053 catch
\* Sigv4Required once and call download_s3file again on a new connection
download_s3file ==
    /\ pc = "download_s3file"
    /\ invoked' = invoked \cup {"download_s3file"}
    /\ IF params.check_mode
       THEN /\ Finish(ExitJson("GET operation skipped - running in check mode", TRUE))
            /\ UNCHANGED <<calls, dlVars>>
       ELSE \E resp \in {"ok", "error", "sigv4"} :
              CASE resp = "ok" ->
                     /\ calls' = calls \cup {"get_object"}
                     /\ x' = 0
                     /\ pc' = "download_file"
                     /\ UNCHANGED <<result, sig_4, transfers>>
                [] resp = "error" ->
                     /\ calls' = calls \cup {"get_object"}
                     /\ Finish(FailJson("Could not find the key."))
                     /\ UNCHANGED dlVars
                [] OTHER ->
                     IF sig_4
                     THEN /\ calls' = calls \cup {"get_object"}
                          /\ Finish(Crash("Sigv4Required"))
                          /\ UNCHANGED dlVars
                     ELSE /\ calls' = calls \cup {"get_object", "boto3_conn"}
                          /\ sig_4' = TRUE
                          /\ UNCHANGED <<pc, result, x, transfers>>
    /\ UNCHANGED <<params, HAS_MD5, mainVars, overwrite, bucketrtn, keyrtn, dest_exists,
                   cmpVars, tagVars>>

\* line 685: for x in range(0, retries + 1)
InRange(n, retries) == n < retries + 1
\* lines 691, 696: the last pass through the loop fails
LastPass(n, retries) == n >= retries

\* lines 685-698: one pass of the loop, or the loop's end, after which
\* download_s3file returns to main, which runs on to line 1196
download_file ==
    /\ pc = "download_file"
    /\ IF InRange(x, params.retries)
       THEN /\ calls' = calls \cup {"download_file"}
            /\ transfers' = transfers + 1
            /\ \E resp \in {"ok", "error", "SSLError"} :
                 IF resp = "ok"
                 THEN Finish(ExitJson("GET operation complete", TRUE)) /\ UNCHANGED x
                 ELSE IF LastPass(x, params.retries)
                      THEN /\ Finish(FailJson(IF resp = "error"
                                              THEN "Failed while downloading."
                                              ELSE "s3 download failed"))
                           /\ UNCHANGED x
                      ELSE x' = x + 1 /\ UNCHANGED <<pc, result>>
       ELSE /\ pc' = "main_end"
            /\ UNCHANGED <<calls, result, x, transfers>>
    /\ UNCHANGED <<params, HAS_MD5, mainVars, overwrite, invoked, bucketrtn, keyrtn, dest_exists,
                   cmpVars, sig_4, tagVars>>

\* line 1196: module.exit_json(failed=False)
MainEnd ==
    /\ pc = "main_end"
    /\ Finish([outcome |-> "exit", changed |-> "absent", msg |-> ""])
    /\ UNCHANGED <<params, HAS_MD5, mainVars, overwrite, calls, invoked, bucketrtn, keyrtn,
                   dest_exists, cmpVars, dlVars, tagVars>>

\* ------------------------------------------------------------ mode == 'put'
\* lines 1060-1066
PutValidate ==
    /\ pc = "put_validate"
    /\ IF params.src_kind = "none"
       THEN Finish(FailJson("Either content, content_base64 or src must be specified for PUT operations"))
       ELSE \E src_exists \in BOOLEAN :
              IF params.src_kind = "src" /\ ~src_exists
              THEN Finish(FailJson("Local object does not exist for PUT operation"))
              ELSE /\ pc' = IF bucketrtn THEN "put_key_check" ELSE "create_bucket"
                   /\ UNCHANGED result
    /\ UNCHANGED <<params, HAS_MD5, mainVars, overwrite, calls, invoked, bucketrtn, keyrtn,
                   dest_exists, cmpVars, dlVars, tagVars>>

\* line 1067
PutKeyCheck ==
    /\ pc = "put_key_check"
    /\ calls' = calls \cup {"head_object"}
    /\ invoked' = invoked \cup {"key_check"}
    /\ \E resp \in HeadAnswers :
         LET r == key_check(resp, validate) IN
         /\ key_found' = (resp = "ok")
         /\ IF r = "fail"
            THEN /\ Finish(FailJson("Failed while looking up object (during key check)"))
                 /\ UNCHANGED keyrtn
            ELSE /\ keyrtn' = r
                 /\ pc' = "put_decide"
                 /\ UNCHANGED result
    /\ UNCHANGED <<params, HAS_MD5, acls, warnings, copyVars, listVars, delVars, in_store,
                   overwrite,
                   bucketrtn, dest_exists, cmpVars, dlVars, tagVars>>

DropInAnswers == {"ok", "NotImplemented", "error"}

\* create_bucket returns True (line 488) to its caller in main: line 1074
\* (put), line 1134 (create without object), line 1152 (create with object),
\* line 1193 (copy)
CreateBucketReturns ==
    CASE params.mode = "put" -> pc' = "put_decide" /\ UNCHANGED result
      [] params.mode = "copy" -> pc' = "copy_object_to_bucket" /\ UNCHANGED result
      [] params.mode = "create" /\ ~Truthy(params.object) ->
             Finish(ExitJson("Bucket created successfully", TRUE))
      [] OTHER -> pc' = "create_dirkey" /\ UNCHANGED result

\* main lines 1071-1072 and create_bucket lines 464-477: check mode, then
\* create_bucket and, with a permission, the bucket_exists waiter
create_bucket ==
    /\ pc = "create_bucket"
    /\ invoked' = invoked \cup {"create_bucket"}
    /\ params' = [params EXCEPT !.permission = acls.bucket_acl]
    /\ i' = 1
    /\ IF params.check_mode
       THEN /\ Finish(ExitJson("CREATE operation skipped - running in check mode", TRUE))
            /\ UNCHANGED <<calls, warnings, in_store>>
       ELSE \E resp \in DropInAnswers \cup {"waiter_error"} :
              CASE resp = "ok" ->
                     /\ calls' = calls \cup {"create_bucket"}
                                       \cup IF params'.permission # <<>>
                                            THEN {"bucket_exists_waiter"} ELSE {}
                     /\ pc' = "put_bucket_acl"
                     /\ in_store' = [in_store EXCEPT !.bucket = TRUE]
                     /\ UNCHANGED <<result, warnings>>
                [] resp = "waiter_error" ->
                     /\ params'.permission # <<>>
                     /\ calls' = calls \cup {"create_bucket", "bucket_exists_waiter"}
                     /\ in_store' = [in_store EXCEPT !.bucket = TRUE]
                     /\ UNCHANGED warnings
                     /\ Finish(FailJson("Failed while creating bucket or setting acl (check that you have CreateBucket and PutBucketAcl permission)."))
                [] resp = "NotImplemented" ->
                     /\ calls' = calls \cup {"create_bucket"}
                     /\ warnings' = warnings \cup {"PutBucketAcl"}
                     /\ CreateBucketReturns
                     /\ UNCHANGED in_store
                [] OTHER ->
                     /\ calls' = calls \cup {"create_bucket"}
                     /\ UNCHANGED <<warnings, in_store>>
                     /\ Finish(FailJson("Failed while creating bucket or setting acl (check that you have CreateBucket and PutBucketAcl permission)."))
    /\ UNCHANGED <<HAS_MD5, acls, copyVars, listVars, key_found, delVars, overwrite, bucketrtn, keyrtn, dest_exists, cmpVars, dlVars,
                   remote_tags, pending_tags, et, cont, applications>>

\* create_bucket lines 478-488: one pass of "for acl in permission"
put_bucket_acl ==
    /\ pc = "put_bucket_acl"
    /\ IF i > Len(params.permission)
       THEN /\ CreateBucketReturns
            /\ UNCHANGED <<calls, i, warnings>>
       ELSE /\ calls' = calls \cup {"put_bucket_acl"}
            /\ \E resp \in DropInAnswers :
                 CASE resp = "ok" -> i' = i + 1 /\ UNCHANGED <<pc, result, warnings>>
                   [] resp = "NotImplemented" ->
                        /\ warnings' = warnings \cup {"PutBucketAcl"}
                        /\ CreateBucketReturns
                        /\ UNCHANGED i
                   [] OTHER ->
                        /\ Finish(FailJson("Failed while creating bucket or setting acl (check that you have CreateBucket and PutBucketAcl permission)."))
                        /\ UNCHANGED <<i, warnings>>
    /\ UNCHANGED <<params, HAS_MD5, acls, copyVars, listVars, key_found, delVars, in_store, overwrite, invoked, bucketrtn, keyrtn, dest_exists,
                   cmpVars, dlVars, remote_tags, pending_tags, et, cont, applications>>

\* the policy test left out of the guard
PutCompares_IgnoresPolicy(kr, ow) == kr = "True"

\* line 1081: keyrtn and overwrite != 'always'
PutCompares(kr, ow) == kr = "True" /\ ow # "always"

\* lines 1081-1089, up to the comparison
PutDecide ==
    /\ pc = "put_decide"
    /\ IF PutCompares(keyrtn, overwrite)
       THEN IF overwrite = "never"
            THEN /\ pc' = "ensure_tags"
                 /\ cont' = "get_download_url"
                 /\ UNCHANGED params
            ELSE /\ pc' = "get_etag"
                 /\ UNCHANGED <<params, cont>>
       ELSE /\ pc' = "upload_s3file"
            /\ params' = [params EXCEPT !.permission = acls.object_acl]
            /\ UNCHANGED cont
    /\ UNCHANGED <<HAS_MD5, mainVars, overwrite, calls, invoked, result, bucketrtn, keyrtn,
                   dest_exists, cmpVars, dlVars, remote_tags, pending_tags, et, i,
                   applications>>

\* upload_s3file lines 604-646: check mode, then upload_file / upload_fileobj
upload_s3file ==
    /\ pc = "upload_s3file"
    /\ invoked' = invoked \cup {"upload_s3file"}
    /\ IF params.check_mode
       THEN /\ Finish(ExitJson("PUT operation skipped - running in check mode", TRUE))
            /\ UNCHANGED <<calls, i, transfers>>
       ELSE /\ calls' = calls \cup {IF params.src_kind = "src" THEN "upload_file"
                                                               ELSE "upload_fileobj"}
            /\ transfers' = transfers + 1
            /\ \E resp \in {"ok", "error"} :
                 IF resp = "ok"
                 THEN pc' = "put_object_acl" /\ i' = 1 /\ UNCHANGED result
                 ELSE Finish(FailJson("Unable to complete PUT operation.")) /\ UNCHANGED i
    /\ UNCHANGED <<params, HAS_MD5, mainVars, overwrite, bucketrtn, keyrtn, dest_exists,
                   cmpVars, x, sig_4, remote_tags, pending_tags, et, cont, applications>>

\* upload_s3file lines 647-656: one pass of "for acl in permission"
put_object_acl ==
    /\ pc = "put_object_acl"
    /\ IF i > Len(params.permission)
       THEN /\ pc' = "ensure_tags"
            /\ cont' = "put_download_url"
            /\ UNCHANGED <<calls, result, i, warnings>>
       ELSE /\ calls' = calls \cup {"put_object_acl"}
            /\ \E resp \in DropInAnswers :
                 CASE resp = "ok" -> i' = i + 1 /\ UNCHANGED <<pc, result, cont, warnings>>
                   [] resp = "NotImplemented" ->
                        /\ warnings' = warnings \cup {"PutObjectAcl"}
                        /\ pc' = "ensure_tags"
                        /\ cont' = "put_download_url"
                        /\ UNCHANGED <<result, i>>
                   [] OTHER ->
                        /\ Finish(FailJson("Unable to set object ACL"))
                        /\ UNCHANGED <<i, cont, warnings>>
    /\ UNCHANGED <<params, HAS_MD5, acls, copyVars, listVars, key_found, delVars, in_store, overwrite, invoked, bucketrtn, keyrtn, dest_exists,
                   cmpVars, dlVars, remote_tags, pending_tags, et, applications>>

\* --------------------------------------------------------------- ensure_tags
\* an update in which the existing entries win
Update_KeepsOld(a, b) ==
    [k \in DOMAIN a \cup DOMAIN b |-> IF k \in DOMAIN a THEN a[k] ELSE b[k]]

\* dict.update: b's entries over a's
Update(a, b) ==
    [k \in DOMAIN a \cup DOMAIN b |-> IF k \in DOMAIN b THEN b[k] ELSE a[k]]

\* purge_tags ignored: the desired tags are always merged into the current
TargetTags_AlwaysMerges(current, tags, purge_tags) ==
    [k \in DOMAIN current \cup DOMAIN tags |-> IF k \in DOMAIN tags THEN tags[k] ELSE current[k]]

\* lines 879-884: the tag set ensure_tags aims at
TargetTags(current, tags, purge_tags) ==
    IF ~purge_tags THEN Update(current, tags) ELSE tags

\* get_object_tagging as the store answers it: a written tag set becomes
\* visible at some read, or not yet
TagAnswers == {"ok", "NoSuchTagSet", "NotImplemented", "error"}
Visible(prop) ==
    IF prop /\ ~IsNone(pending_tags) THEN The(pending_tags) ELSE remote_tags
Propagate(prop) ==
    /\ remote_tags' = Visible(prop)
    /\ pending_tags' = IF prop THEN None ELSE pending_tags

\* where ensure_tags returns to
Return(to) == pc' = to

\* the tags read compared with the tags parameter instead of the target
NeedsUpdate_AgainstDesired(current, tags, desired) == current # desired

\* the comparison left out: every application writes
NeedsUpdate_Always(current, tags, desired) == TRUE

\* line 885: the target is compared with the tags read (desired: the tags
\* parameter as given)
NeedsUpdate(current, tags, desired) == current # tags

\* lines 867-885 and 899: the read of the current tags and the comparison
ensure_tags ==
    /\ pc = "ensure_tags"
    /\ invoked' = invoked \cup {"ensure_tags"}
    /\ calls' = calls \cup {"get_object_tagging"}
    /\ \E resp \in TagAnswers, prop \in BOOLEAN :
         /\ Propagate(prop)
         /\ warnings' = IF resp = "NotImplemented"
                         THEN warnings \cup {"GetObjectTagging"} ELSE warnings
         /\ CASE resp = "error" ->
                   /\ Finish(FailJson("Failed to get object tags."))
                   /\ UNCHANGED et
              [] resp = "NotImplemented" ->
                   \* line 875 warns; line 899 then reads current_tags_dict unbound
                   /\ Finish(Crash("UnboundLocalError"))
                   /\ et' = [et EXCEPT !.warned = TRUE]
              [] OTHER ->
                   /\ resp = "NoSuchTagSet" => remote_tags' = EmptyTags
                   /\ LET current == remote_tags' IN
                      IF IsNone(params.tags)
                      THEN /\ et' = [NoEt EXCEPT !.current_tags_dict = Some(current),
                                                 !.read = Some(current)]
                           /\ Return(cont)
                      ELSE LET tags == TargetTags(current, The(params.tags), params.purge_tags) IN
                           /\ et' = [NoEt EXCEPT !.current_tags_dict = Some(current),
                                                 !.read = Some(current),
                                                 !.tags = Some(tags)]
                           /\ IF NeedsUpdate(current, tags, The(params.tags))
                              THEN pc' = "tag_mutate"
                              ELSE Return(cont)
                   /\ UNCHANGED result
    /\ UNCHANGED <<params, HAS_MD5, acls, copyVars, listVars, key_found, delVars, in_store, overwrite, bucketrtn, keyrtn, dest_exists,
                   cmpVars, dlVars, cont, i, applications>>

\* the empty target handled like any other: no delete_object_tagging
TagCall_NeverDeletes(tags, purge_tags) ==
    IF tags # EmptyTags THEN "put_object_tagging" ELSE "none"

\* lines 886-896: which call, if any, writes the tag set
TagCall(tags, purge_tags) ==
    IF tags # EmptyTags THEN "put_object_tagging"
    ELSE IF purge_tags THEN "delete_object_tagging"
    ELSE "none"

tag_mutate ==
    /\ pc = "tag_mutate"
    /\ LET call == TagCall(The(et.tags), params.purge_tags) IN
       IF call = "none"
       THEN /\ pc' = "wait_tags_are_applied"
            /\ UNCHANGED <<calls, result, pending_tags>>
       ELSE /\ calls' = calls \cup {call}
            /\ \E resp \in {"ok", "error"} :
                 IF resp = "ok"
                 THEN /\ pending_tags' = et.tags
                      /\ pc' = "wait_tags_are_applied"
                      /\ UNCHANGED result
                 ELSE /\ Finish(FailJson(IF call = "put_object_tagging"
                                         THEN "Failed to update object tags."
                                         ELSE "Failed to delete object tags."))
                      /\ UNCHANGED pending_tags
    /\ UNCHANGED <<params, HAS_MD5, mainVars, overwrite, invoked, bucketrtn, keyrtn, dest_exists,
                   cmpVars, dlVars, remote_tags, et, cont, i, applications>>

\* one read too many before giving up
PollsExhausted_OffByOne(n) == n > TagPolls

\* line 853: range(0, 12) is used up after n reads
PollsExhausted(n) == n >= TagPolls

\* wait_tags_are_applied (lines 852-864): one pass of "for dummy in range(0, 12)";
\* ensure_tags lines 897-899 on its return
wait_tags_are_applied ==
    /\ pc = "wait_tags_are_applied"
    /\ invoked' = invoked \cup {"wait_tags_are_applied"}
    /\ calls' = calls \cup {"get_object_tagging"}
    /\ \E resp \in {"ok", "NoSuchTagSet", "error"}, prop \in BOOLEAN :
         /\ Propagate(prop)
         /\ IF resp = "error"
            THEN /\ Finish(FailJson("Failed to get object tags."))
                 /\ UNCHANGED et
            ELSE /\ resp = "NoSuchTagSet" => remote_tags' = EmptyTags
                 /\ IF remote_tags' # The(et.tags)
                    THEN /\ et' = [et EXCEPT !.polls = @ + 1]
                         /\ IF PollsExhausted(et.polls + 1)
                            THEN Finish(FailJson("Object tags failed to apply in the expected time."))
                            ELSE UNCHANGED <<pc, result>>
                    ELSE /\ et' = [et EXCEPT !.polls = @ + 1,
                                             !.current_tags_dict = Some(remote_tags'),
                                             !.changed = TRUE]
                         /\ Return(cont)
                         /\ UNCHANGED result
    /\ UNCHANGED <<params, HAS_MD5, mainVars, overwrite, bucketrtn, keyrtn, dest_exists,
                   cmpVars, dlVars, cont, i, applications>>

\* ------------------------------------------- get_download_url, put_download_url
\* main lines 1085, 1163 and get_download_url lines 718-725 (mode geturl
\* leaves changed at its default, True)
get_download_url ==
    /\ pc = "get_download_url"
    /\ calls' = calls \cup {"generate_presigned_url"}
    /\ \E resp \in {"ok", "error"} :
         IF resp = "ok"
         THEN Finish(ExitJson("Download url:",
                              IF params.mode = "geturl" THEN TRUE ELSE et.changed))
         ELSE Finish(FailJson("Failed while getting download url."))
    /\ UNCHANGED <<params, HAS_MD5, mainVars, overwrite, invoked, bucketrtn, keyrtn, dest_exists,
                   cmpVars, dlVars, tagVars>>

\* upload_s3file lines 658-660, create_dirkey lines 577-579 and
\* put_download_url lines 728-735
put_download_url ==
    /\ pc = "put_download_url"
    /\ calls' = calls \cup {"generate_presigned_url"}
    /\ \E resp \in {"ok", "error"} :
         IF resp = "ok"
         THEN Finish(ExitJson(IF params.mode = "create"
                              THEN "Virtual directory created in bucket"
                              ELSE "PUT operation complete", TRUE))
         ELSE Finish(FailJson("Unable to generate presigned URL"))
    /\ UNCHANGED <<params, HAS_MD5, mainVars, overwrite, invoked, bucketrtn, keyrtn, dest_exists,
                   cmpVars, dlVars, tagVars>>

\* ---------------------------------------------------------- mode == 'delobj'
\* main lines 1092-1100 and delete_key lines 539-546
delete_key ==
    /\ pc = "delobj"
    /\ IF IsNone(params.object)
       THEN /\ Finish(FailJson("object parameter is required"))
            /\ UNCHANGED <<calls, invoked>>
       ELSE /\ invoked' = invoked \cup {"delete_key"}
            /\ IF params.check_mode
               THEN /\ Finish(ExitJson("DELETE operation skipped - running in check mode", TRUE))
                    /\ UNCHANGED calls
               ELSE /\ calls' = calls \cup {"delete_object"}
                    /\ \E resp \in {"ok", "error"} :
                         IF resp = "ok"
                         THEN Finish(ExitJson("Object deleted from bucket", TRUE))
                         ELSE Finish(FailJson("Failed while trying to delete"))
    /\ UNCHANGED <<params, HAS_MD5, mainVars, overwrite, bucketrtn, keyrtn, dest_exists,
                   cmpVars, dlVars, tagVars>>

\* ---------------------------------------------------------- mode == 'delete'
\* main lines 1103-1107 and delete_bucket lines 520-526: check mode, then
\* bucket_check with validate at its default
delete_bucket ==
    /\ pc = "delete_bucket"
    /\ invoked' = invoked \cup {"delete_bucket"}
    /\ IF params.check_mode
       THEN /\ Finish(ExitJson("DELETE operation skipped - running in check mode", TRUE))
            /\ UNCHANGED calls
       ELSE /\ calls' = calls \cup {"head_bucket"}
            /\ \E resp \in HeadAnswers \cup {"endpoint"} :
                 LET r == bucket_check(resp, TRUE) IN
                 CASE r = "fail" ->
                        Finish(FailJson("Failed while looking up bucket (during bucket_check)"))
                   [] r = "fail_endpoint" -> Finish(FailJson("Invalid endpoint provided"))
                   [] r = "False" -> pc' = "main_end" /\ UNCHANGED result
                   [] OTHER -> pc' = "list_object_versions" /\ UNCHANGED result
    /\ bucket_exists' = IF pc' = "done" THEN bucket_exists
                 ELSE IF pc' = "main_end" THEN "False" ELSE "True"
    /\ UNCHANGED <<params, HAS_MD5, acls, warnings, copyVars, listVars, key_found, in_store, pages,
                   nonempty, deleted, overwrite, bucketrtn, keyrtn, dest_exists,
                   cmpVars, dlVars, tagVars>>

\* what a call inside delete_bucket's try block (lines 523-536) ends in when
\* it raises: False is returned and main runs on to line 1196, or fail_json
DeleteBucketRaises(resp) ==
    IF resp = "NoSuchBucket"
    THEN pc' = "main_end" /\ UNCHANGED result
    ELSE Finish(FailJson("Failed while deleting bucket"))

\* "if keys" of line 529, never true
HasKeys_Never(page) == FALSE

\* delete_bucket line 529: "if keys"
HasKeys(page) == page = "keys"

\* delete_bucket line 528 and paginated_versioned_list_with_fallback (lines
\* 497-506): the next page of the listing, from list_object_versions or,
\* after the fallback, from list_objects_v2; the listing has at least one
\* page, and after its last page the loop is left for line 531
list_object_versions ==
    /\ pc = "list_object_versions"
    /\ \E fallback \in BOOLEAN, resp \in {"keys", "empty", "end", "NoSuchBucket", "error"} :
         /\ calls' = calls \cup {"list_object_versions"}
                           \cup IF fallback THEN {"list_objects_v2"} ELSE {}
         /\ CASE resp \in {"keys", "empty"} ->
                   /\ pages < MaxPages
                   /\ pages' = pages + 1
                   /\ nonempty' = IF resp = "keys" THEN nonempty + 1 ELSE nonempty
                   /\ pc' = IF HasKeys(resp) THEN "delete_objects" ELSE pc
                   /\ UNCHANGED result
              [] resp = "end" ->
                   /\ pages >= 1
                   /\ pc' = "delete_bucket_call"
                   /\ UNCHANGED <<result, pages, nonempty>>
              [] OTHER ->
                   /\ DeleteBucketRaises(resp)
                   /\ UNCHANGED <<pages, nonempty>>
    /\ UNCHANGED <<params, HAS_MD5, acls, warnings, copyVars, listVars, key_found, in_store, bucket_exists,
                   deleted, overwrite, invoked, bucketrtn, keyrtn, dest_exists, cmpVars,
                   dlVars, tagVars>>

\* delete_bucket lines 529-530, and back to the loop of line 528
delete_objects ==
    /\ pc = "delete_objects"
    /\ calls' = calls \cup {"delete_objects"}
    /\ deleted' = deleted + 1
    /\ \E resp \in {"ok", "NoSuchBucket", "error"} :
         IF resp = "ok"
         THEN pc' = "list_object_versions" /\ UNCHANGED result
         ELSE DeleteBucketRaises(resp)
    /\ UNCHANGED <<params, HAS_MD5, acls, warnings, copyVars, listVars, key_found, in_store, bucket_exists,
                   pages, nonempty, overwrite, invoked, bucketrtn, keyrtn, dest_exists,
                   cmpVars, dlVars, tagVars>>

\* delete_bucket lines 531-532 and main lines 1106-1107
DeleteBucketCall ==
    /\ pc = "delete_bucket_call"
    /\ calls' = calls \cup {"delete_bucket"}
    /\ \E resp \in {"ok", "NoSuchBucket", "error"} :
         IF resp = "ok"
         THEN Finish(ExitJson("Bucket and all keys have been deleted.", TRUE))
         ELSE DeleteBucketRaises(resp)
    /\ UNCHANGED <<params, HAS_MD5, mainVars, overwrite, invoked, bucketrtn, keyrtn,
                   dest_exists, cmpVars, dlVars, tagVars>>

\* ---------------------------------------------------------- mode == 'create'
\* main lines 1123-1153, up to create_bucket or create_dirkey; the key_check
\* of line 1141 runs with validate at its default
MainCreate ==
    /\ pc = "create"
    /\ IF ~Truthy(params.object)
       THEN /\ IF bucketrtn
               THEN Finish(ExitJson("Bucket already exists.", FALSE))
               ELSE pc' = "create_bucket" /\ UNCHANGED result
            /\ UNCHANGED <<calls, invoked, keyrtn>>
       ELSE IF bucketrtn
            THEN /\ calls' = calls \cup {"head_object"}
                 /\ invoked' = invoked \cup {"key_check"}
                 /\ \E resp \in HeadAnswers :
                      LET r == key_check(resp, TRUE) IN
                      /\ keyrtn' = IF r = "fail" THEN keyrtn ELSE r
                      /\ CASE r = "fail" ->
                                Finish(FailJson("Failed while looking up object (during key check)"))
                           [] r = "True" ->
                                Finish(ExitJson("Bucket and key already exists.", FALSE))
                           [] OTHER -> pc' = "create_dirkey" /\ UNCHANGED result
            ELSE /\ pc' = "create_bucket"
                 /\ UNCHANGED <<calls, invoked, keyrtn, result>>
    /\ UNCHANGED <<params, HAS_MD5, mainVars, overwrite, bucketrtn, dest_exists,
                   cmpVars, dlVars, tagVars>>

\* main lines 1145, 1152 and create_dirkey lines 549-559: check mode, then
\* put_object
create_dirkey ==
    /\ pc = "create_dirkey"
    /\ invoked' = invoked \cup {"create_dirkey"}
    /\ params' = [params EXCEPT !.permission = acls.object_acl]
    /\ i' = 1
    /\ IF params.check_mode
       THEN /\ Finish(ExitJson("PUT operation skipped - running in check mode", TRUE))
            /\ UNCHANGED <<calls, warnings, cont, in_store>>
       ELSE /\ calls' = calls \cup {"put_object"}
            /\ \E resp \in DropInAnswers :
                 CASE resp = "ok" ->
                        /\ pc' = "create_dirkey_acl"
                        /\ in_store' = [in_store EXCEPT !.dirkey = TRUE]
                        /\ UNCHANGED <<result, warnings, cont>>
                   [] resp = "NotImplemented" ->
                        /\ warnings' = warnings \cup {"PutObjectAcl"}
                        /\ pc' = "ensure_tags"
                        /\ cont' = "create_dirkey_url"
                        /\ UNCHANGED <<result, in_store>>
                   [] OTHER ->
                        /\ Finish(FailJson("Failed while creating object"))
                        /\ UNCHANGED <<warnings, cont, in_store>>
    /\ UNCHANGED <<HAS_MD5, acls, copyVars, listVars, key_found, delVars, overwrite, bucketrtn, keyrtn, dest_exists,
                   cmpVars, dlVars, remote_tags, pending_tags, et, applications>>

\* create_dirkey lines 560-568: one pass of "for acl in permission"
create_dirkey_acl ==
    /\ pc = "create_dirkey_acl"
    /\ IF i > Len(params.permission)
       THEN /\ pc' = "ensure_tags"
            /\ cont' = "create_dirkey_url"
            /\ UNCHANGED <<calls, result, i, warnings>>
       ELSE /\ calls' = calls \cup {"put_object_acl"}
            /\ \E resp \in DropInAnswers :
                 CASE resp = "ok" -> i' = i + 1 /\ UNCHANGED <<pc, result, cont, warnings>>
                   [] resp = "NotImplemented" ->
                        /\ warnings' = warnings \cup {"PutObjectAcl"}
                        /\ pc' = "ensure_tags"
                        /\ cont' = "create_dirkey_url"
                        /\ UNCHANGED <<result, i>>
                   [] OTHER ->
                        /\ Finish(FailJson("Failed while creating object"))
                        /\ UNCHANGED <<i, cont, warnings>>
    /\ UNCHANGED <<params, HAS_MD5, acls, copyVars, listVars, key_found, delVars, in_store, overwrite, invoked, bucketrtn, keyrtn,
                   dest_exists, cmpVars, dlVars, remote_tags, pending_tags, et, applications>>

\* create_dirkey lines 570-575; put_download_url follows (line 577)
create_dirkey_url ==
    /\ pc = "create_dirkey_url"
    /\ calls' = calls \cup {"generate_presigned_url"}
    /\ \E resp \in {"ok", "error"} :
         IF resp = "ok"
         THEN pc' = "put_download_url" /\ UNCHANGED result
         ELSE Finish(FailJson("Unable to generate presigned URL"))
    /\ UNCHANGED <<params, HAS_MD5, mainVars, overwrite, invoked, bucketrtn, keyrtn,
                   dest_exists, cmpVars, dlVars, tagVars>>

\* ------------------------------------------------------------ mode == 'copy'
\* the ETag tokens the store sends for the two objects of a copy
RemoteEtags == {e \in Etags : e.quoted /\ e.parts = 0}

\* main lines 1184-1191: d_etag = get_etag(...) when the bucket exists (a
\* head_object error other than 404 has no handler), else create_bucket
MainCopy ==
    /\ pc = "copy"
    /\ IF bucketrtn
       THEN /\ calls' = calls \cup {"head_object"}
            /\ invoked' = invoked \cup {"get_etag"}
            /\ \E resp \in {"ok", "404", "error"} :
                 CASE resp = "ok" ->
                        /\ \E e \in RemoteEtags : d_etag' = Some(e)
                        /\ pc' = "copy_object_to_bucket"
                        /\ UNCHANGED result
                   [] resp = "404" ->
                        /\ d_etag' = None
                        /\ pc' = "copy_object_to_bucket"
                        /\ UNCHANGED result
                   [] OTHER ->
                        /\ Finish(Crash("ClientError"))
                        /\ UNCHANGED d_etag
       ELSE /\ pc' = "create_bucket"
            /\ UNCHANGED <<calls, invoked, result, d_etag>>
    /\ UNCHANGED <<params, HAS_MD5, acls, warnings, s_etag, listVars, key_found, delVars, in_store, overwrite, bucketrtn, keyrtn,
                   dest_exists, cmpVars, dlVars, tagVars>>

\* an exception raised inside copy_object_to_bucket's try block (lines
\* 741-784): NotImplemented is warned about (782), the function returns and
\* main runs on to line 1196; any other client error is fail_json (784)
CopyRaises(resp) ==
    IF resp = "NotImplemented"
    THEN /\ warnings' = warnings \cup {"PutObjectAcl"}
         /\ pc' = "main_end"
         /\ UNCHANGED result
    ELSE /\ Finish(FailJson("Failed while copying object"))
         /\ UNCHANGED warnings

\* main line 1193 and copy_object_to_bucket lines 738-750: check mode, then
\* key_check on the source
copy_object_to_bucket ==
    /\ pc = "copy_object_to_bucket"
    /\ invoked' = invoked \cup {"copy_object_to_bucket"}
    /\ params' = [params EXCEPT !.permission = acls.object_acl]
    /\ IF params.check_mode
       THEN /\ Finish(ExitJson("COPY operation skipped - running in check mode", TRUE))
            /\ UNCHANGED calls
       ELSE /\ calls' = calls \cup {"head_object"}
            /\ \E resp \in HeadAnswers :
                 LET r == key_check(resp, validate) IN
                 CASE r = "fail" ->
                        Finish(FailJson("Failed while looking up object (during key check)"))
                   [] r = "False" ->
                        Finish(ExitJson("Key does not exist in bucket", FALSE))
                   [] OTHER -> pc' = "copy_get_etag" /\ UNCHANGED result
    /\ UNCHANGED <<HAS_MD5, mainVars, overwrite, bucketrtn, keyrtn, dest_exists,
                   cmpVars, dlVars, tagVars>>

\* copy_object_to_bucket lines 752-755, 760: s_etag = get_etag(...) and the
\* comparison with d_etag
copy_get_etag ==
    /\ pc = "copy_get_etag"
    /\ calls' = calls \cup {"head_object"}
    /\ \E resp \in {"ok", "404", "NotImplemented", "error"} :
         IF resp \in {"ok", "404"}
         THEN /\ IF resp = "ok"
                 THEN \E e \in RemoteEtags : s_etag' = Some(e)
                 ELSE s_etag' = None
              /\ IF s_etag' = d_etag
                 THEN pc' = "ensure_tags" /\ cont' = "copy_same"
                 ELSE pc' = "copy_object" /\ UNCHANGED cont
              /\ UNCHANGED <<result, warnings>>
         ELSE /\ CopyRaises(resp)
              /\ UNCHANGED <<s_etag, cont>>
    /\ UNCHANGED <<params, HAS_MD5, acls, d_etag, listVars, key_found, delVars, in_store, overwrite, invoked, bucketrtn, keyrtn,
                   dest_exists, cmpVars, dlVars, remote_tags, pending_tags, et, i,
                   applications>>

\* copy_object_to_bucket lines 761-775
copy_object ==
    /\ pc = "copy_object"
    /\ calls' = calls \cup {"copy_object"}
    /\ \E resp \in DropInAnswers :
         IF resp = "ok"
         THEN /\ pc' = "copy_object_acl"
              /\ i' = 1
              /\ UNCHANGED <<result, warnings>>
         ELSE /\ CopyRaises(resp)
              /\ UNCHANGED i
    /\ UNCHANGED <<params, HAS_MD5, acls, copyVars, listVars, key_found, delVars, in_store, overwrite, invoked, bucketrtn, keyrtn,
                   dest_exists, cmpVars, dlVars, remote_tags, pending_tags, et, cont,
                   applications>>

\* copy_object_to_bucket lines 776-779: one pass of "for acl in permission"
copy_object_acl ==
    /\ pc = "copy_object_acl"
    /\ IF i > Len(params.permission)
       THEN /\ pc' = "ensure_tags"
            /\ cont' = "copy_done"
            /\ UNCHANGED <<calls, result, i, warnings>>
       ELSE /\ calls' = calls \cup {"put_object_acl"}
            /\ \E resp \in DropInAnswers :
                 IF resp = "ok"
                 THEN i' = i + 1 /\ UNCHANGED <<pc, result, cont, warnings>>
                 ELSE /\ CopyRaises(resp)
                      /\ UNCHANGED <<i, cont>>
    /\ UNCHANGED <<params, HAS_MD5, acls, copyVars, listVars, key_found, delVars, in_store, overwrite, invoked, bucketrtn, keyrtn,
                   dest_exists, cmpVars, dlVars, remote_tags, pending_tags, et, applications>>

\* copy_object_to_bucket lines 756-759: the exits after ensure_tags when the
\* ETags were the same
CopySameExit ==
    /\ pc = "copy_same"
    /\ IF et.changed
       THEN Finish(ExitJson("tags successfully updated.", TRUE))
       ELSE Finish(ExitJson("ETag from source and destination are the same", FALSE))
    /\ UNCHANGED <<params, HAS_MD5, mainVars, overwrite, calls, invoked, bucketrtn, keyrtn,
                   dest_exists, cmpVars, dlVars, tagVars>>

\* copy_object_to_bucket line 780
CopyDoneExit ==
    /\ pc = "copy_done"
    /\ Finish(ExitJson("Object copied from bucket to bucket", TRUE))
    /\ UNCHANGED <<params, HAS_MD5, mainVars, overwrite, calls, invoked, bucketrtn, keyrtn,
                   dest_exists, cmpVars, dlVars, tagVars>>

\* ---------------------------------------------------------- mode == 'geturl'
\* main line 1162: get_current_object_tags_dict, with no handler around it
geturl_tags ==
    /\ pc = "geturl_tags"
    /\ calls' = calls \cup {"get_object_tagging"}
    /\ \E resp \in TagAnswers :
         IF resp \in {"ok", "NoSuchTagSet"}
         THEN pc' = "get_download_url" /\ UNCHANGED result
         ELSE Finish(Crash("ClientError"))
    /\ UNCHANGED <<params, HAS_MD5, mainVars, overwrite, invoked, bucketrtn, keyrtn,
                   dest_exists, cmpVars, dlVars, tagVars>>

\* ---------------------------------------------------------- mode == 'getstr'
\* download_s3str lines 701-715; main lines 1171-1175 catch Sigv4Required once
download_s3str ==
    /\ pc = "download_s3str"
    /\ invoked' = invoked \cup {"download_s3str"}
    /\ IF params.check_mode
       THEN /\ Finish(ExitJson("GET operation skipped - running in check mode", TRUE))
            /\ UNCHANGED <<calls, sig_4>>
       ELSE \E resp \in {"ok", "error", "sigv4"} :
              CASE resp = "ok" ->
                     /\ calls' = calls \cup {"get_object"}
                     /\ Finish(ExitJson("GET operation complete", TRUE))
                     /\ UNCHANGED sig_4
                [] resp = "error" ->
                     /\ calls' = calls \cup {"get_object"}
                     /\ Finish(FailJson("Failed while getting contents of object as a string."))
                     /\ UNCHANGED sig_4
                [] OTHER ->
                     IF sig_4
                     THEN /\ calls' = calls \cup {"get_object"}
                          /\ Finish(Crash("Sigv4Required"))
                          /\ UNCHANGED sig_4
                     ELSE /\ calls' = calls \cup {"get_object", "boto3_conn"}
                          /\ sig_4' = TRUE
                          /\ UNCHANGED <<pc, result>>
    /\ UNCHANGED <<params, HAS_MD5, mainVars, overwrite, bucketrtn, keyrtn, dest_exists,
                   cmpVars, x, transfers, tagVars>>

\* ------------------------------------------------------------ mode == 'list'
\* the store's order of keys: alphabetical
Less(a, b) ==
    \E n \in 0 .. Len(a) :
        /\ n <= Len(b)
        /\ SubSeq(a, 1, n) = SubSeq(b, 1, n)
        /\ \/ n = Len(a) /\ n < Len(b)
           \/ n < Len(a) /\ n < Len(b) /\ a[n + 1] < b[n + 1]
StartsWith(k, pfx) == Len(pfx) <= Len(k) /\ SubSeq(k, 1, Len(pfx)) = pfx
Least(S) == CHOOSE k \in S : \A o \in S : o = k \/ Less(k, o)
RECURSIVE FirstN(_, _)
FirstN(S, n) ==
    IF n = 0 \/ S = {} THEN <<>>
    ELSE <<Least(S)>> \o FirstN(S \ {Least(S)}, n - 1)

\* list_objects_v2 as the store answers it: the keys with the Prefix that come
\* after StartAfter, or after the last key of the page before (the
\* continuation token), at most MaxKeys of them to a page
Matching(pfx, after) == {k \in bucket_keys : StartsWith(k, pfx) /\ Less(after, k)}
Remaining(pfx, after, tok) == Matching(pfx, IF IsNone(tok) THEN after ELSE The(tok))

\* main lines 1112-1117: bucket_check again, with validate at its default
MainList ==
    /\ pc = "list"
    /\ calls' = calls \cup {"head_bucket"}
    /\ \E resp \in HeadAnswers \cup {"endpoint"} :
         LET r == bucket_check(resp, TRUE) IN
         CASE r = "fail" ->
                Finish(FailJson("Failed while looking up bucket (during bucket_check)"))
           [] r = "fail_endpoint" -> Finish(FailJson("Invalid endpoint provided"))
           [] r = "False" -> Finish(FailJson("Target bucket cannot be found"))
           [] OTHER -> pc' = "list_keys" /\ UNCHANGED result
    /\ UNCHANGED <<params, HAS_MD5, mainVars, overwrite, invoked, bucketrtn, keyrtn,
                   dest_exists, cmpVars, dlVars, tagVars>>

\* list_keys (lines 509-517) and paginated_list (491-494): one page of the
\* paginator per step, which asks for the next page as long as the store
\* holds more keys; sum(..., []) appends the page
list_keys ==
    /\ pc = "list_keys"
    /\ invoked' = invoked \cup {"list_keys"}
    /\ calls' = calls \cup {"list_objects_v2"}
    /\ \E resp \in {"ok", "error"} :
         IF resp = "error"
         THEN /\ Finish(FailJson("Failed while listing the keys in the bucket"))
              /\ UNCHANGED <<s3_keys, token>>
         ELSE LET rest == Remaining(prefix, marker, token)
                  page == FirstN(rest, max_keys)
              IN /\ s3_keys' = s3_keys \o page
                 /\ IF Cardinality(rest) > Len(page)
                    THEN /\ token' = Some(page[Len(page)])
                         /\ UNCHANGED <<pc, result>>
                    ELSE /\ Finish([outcome |-> "exit", changed |-> "absent",
                                    msg |-> "LIST operation complete"])
                         /\ UNCHANGED token
    /\ UNCHANGED <<params, HAS_MD5, acls, warnings, copyVars, key_found, delVars, in_store, prefix, marker,
                   max_keys, bucket_keys, overwrite, bucketrtn, keyrtn, dest_exists, cmpVars,
                   dlVars, tagVars>>

\* -------------------------------------------------------- the invocation
Next ==
    \/ MainValidate
    \/ MainConnect
    \/ MainBucketCheck
    \/ GetKeyCheck
    \/ GetDecide
    \/ get_etag
    \/ etag_compare
    \/ is_local_object_latest
    \/ download_s3file
    \/ download_file
    \/ MainEnd
    \/ PutValidate
    \/ PutKeyCheck
    \/ create_bucket
    \/ put_bucket_acl
    \/ PutDecide
    \/ upload_s3file
    \/ put_object_acl
    \/ ensure_tags
    \/ tag_mutate
    \/ wait_tags_are_applied
    \/ get_download_url
    \/ put_download_url
    \/ delete_key
    \/ delete_bucket
    \/ list_object_versions
    \/ delete_objects
    \/ DeleteBucketCall
    \/ MainCreate
    \/ create_dirkey
    \/ create_dirkey_acl
    \/ create_dirkey_url
    \/ MainCopy
    \/ copy_object_to_bucket
    \/ copy_get_etag
    \/ copy_object
    \/ copy_object_acl
    \/ CopySameExit
    \/ CopyDoneExit
    \/ geturl_tags
    \/ download_s3str
    \/ MainList
    \/ list_keys

Spec == Init /\ [][Next]_vars

\* ------------------------------------- ensure_tags applied twice in a row
\* Two invocations with the same tags and purge_tags reach ensure_tags on the
\* same object one after the other; nothing else writes the object's tags.
TagParams ==
    [mode : {"put"},
     overwrite : {"never"},
     check_mode : {FALSE},
     retries : {0},
     ignore_nonexistent_bucket : {FALSE},
     src_kind : {"src"},
     permission : {<<"private">>},
     tags : {None} \cup {Some(m) : m \in TagMaps},
     purge_tags : BOOLEAN,
     object : {Some("key")},
     rgw : {FALSE},
     s3_url : {None},
     dualstack : {FALSE}]

InitTags ==
    /\ params \in TagParams
    /\ HAS_MD5 = TRUE
    /\ overwrite = "never"
    /\ pc = "ensure_tags"
    /\ calls = {}
    /\ invoked = {}
    /\ result = Running
    /\ bucketrtn = TRUE
    /\ keyrtn = "True"
    /\ dest_exists = FALSE
    /\ s3_etag = None
    /\ local_etag = None
    /\ s3_last_modified = None
    /\ local_last_modified = None
    /\ x = 0
    /\ sig_4 = FALSE
    /\ transfers = 0
    /\ remote_tags \in TagMaps
    /\ pending_tags = None
    /\ et = NoEt
    /\ cont = "applied"
    /\ i = 1
    /\ applications = <<>>
    /\ acls = [bucket_acl |-> bucket_acl(params.permission),
               object_acl |-> object_acl(params.permission)]
    /\ warnings = {}
    /\ s_etag = None
    /\ d_etag = None
    /\ prefix = <<>>
    /\ marker = <<>>
    /\ max_keys = DefaultMaxKeys
    /\ bucket_keys = {}
    /\ s3_keys = <<>>
    /\ token = None
    /\ key_found = FALSE
    /\ bucket_exists = "None"
    /\ pages = 0
    /\ nonempty = 0
    /\ deleted = 0
    /\ in_store = [bucket |-> FALSE, dirkey |-> FALSE]

\* ensure_tags has returned (line 899); the next invocation applies it again
Reapply ==
    /\ pc = "applied"
    /\ applications' = Append(applications,
                              [tags |-> The(et.current_tags_dict), changed |-> et.changed,
                               read |-> The(et.read), calls |-> calls,
                               polls |-> et.polls])
    /\ IF Len(applications) = 0
       THEN /\ pc' = "ensure_tags"
            /\ calls' = {}
            /\ et' = NoEt
       ELSE /\ pc' = "done"
            /\ UNCHANGED <<calls, et>>
    /\ UNCHANGED <<params, HAS_MD5, mainVars, overwrite, invoked, result, bucketrtn, keyrtn,
                   dest_exists, cmpVars, dlVars, remote_tags, pending_tags, cont, i>>

NextTags ==
    \/ ensure_tags
    \/ tag_mutate
    \/ wait_tags_are_applied
    \/ Reapply

SpecTags == InitTags /\ [][NextTags]_vars

\* ------------------------------------------- mode == 'create', invoked twice
\* Two invocations with the same parameters against one store. The first
\* meets any store; the second meets the store the first found or left:
\* head_bucket and head_object answer it from in_store, and what passed the
\* validation and connected the first time does so again.
CreateParams ==
    {p \in ParamSpace : Relevant(p) /\ p.mode = "create" /\ p.permission # <<"bogus">>}

InitCreate ==
    /\ Init
    /\ params \in CreateParams
    /\ HAS_MD5

Second == Len(applications) = 1

\* the permission parameter as it was given: of a one-element list with a
\* valid ACL, main's filters (lines 1021-1022) keep the element in bucket_acl
\* or in object_acl
GivenPermission(a) == IF a.bucket_acl # <<>> THEN a.bucket_acl ELSE a.object_acl

CreateValidate ==
    /\ MainValidate
    /\ Second => pc' # "done"

CreateConnect ==
    /\ MainConnect
    /\ Second => pc' # "done"

CreateBucketCheck ==
    /\ MainBucketCheck
    /\ Second => (bucketrtn' = in_store.bucket /\ pc' # "done")

CreateMain ==
    /\ MainCreate
    /\ (Second /\ "head_object" \in calls') =>
           keyrtn' = IF in_store.dirkey THEN "True" ELSE "False"

\* the tags of a directory key the store does not hold cannot be read
CreateEnsureTags ==
    /\ ensure_tags
    /\ in_store.dirkey \/ pc' = "done"

\* the first invocation has exited with success; the same module is invoked
\* again
InvokeAgain ==
    /\ pc = "done"
    /\ ~Second
    /\ result.outcome = "exit"
    /\ applications' = <<[result |-> result, warnings |-> warnings]>>
    /\ in_store' = [bucket |-> in_store.bucket \/ bucketrtn,
                    dirkey |-> in_store.dirkey \/ keyrtn = "True"]
    /\ params' = [params EXCEPT !.permission = GivenPermission(acls)]
    /\ pc' = "main"
    /\ calls' = {}
    /\ invoked' = {}
    /\ result' = Running
    /\ bucketrtn' = FALSE
    /\ keyrtn' = "None"
    /\ et' = NoEt
    /\ cont' = "none"
    /\ i' = 1
    /\ acls' = NoAcls
    /\ warnings' = {}
    /\ UNCHANGED <<HAS_MD5, overwrite, dest_exists, cmpVars, dlVars, remote_tags,
                   pending_tags, copyVars, listVars, key_found, delVars>>

NextCreate ==
    \/ CreateValidate
    \/ CreateConnect
    \/ CreateBucketCheck
    \/ CreateMain
    \/ create_bucket
    \/ put_bucket_acl
    \/ create_dirkey
    \/ create_dirkey_acl
    \/ CreateEnsureTags
    \/ tag_mutate
    \/ wait_tags_are_applied
    \/ create_dirkey_url
    \/ put_download_url
    \/ InvokeAgain

SpecCreate == InitCreate /\ [][NextCreate]_vars

\* ================================================================ claims
Uploads == {"upload_file", "upload_fileobj"}
TagWrites == {"put_object_tagging", "delete_object_tagging"}
Comparisons == {"etag_compare", "get_etag", "get_s3_last_modified_timestamp",
                "is_local_object_latest"}
Done == pc = "done"
Succeeded == Done /\ result.outcome = "exit"
\* control has reached download_s3file / upload_s3file; outside check mode the
\* function's first remote call has then been issued
DownloadIssued ==
    \/ pc = "download_s3file"
    \/ /\ "download_s3file" \in invoked
       /\ ~params.check_mode => "get_object" \in calls
UploadIssued ==
    \/ pc = "upload_s3file"
    \/ /\ "upload_s3file" \in invoked
       /\ ~params.check_mode => calls \cap Uploads # {}
SkippedGet(msg) == Done /\ result = ExitJson(msg, FALSE) /\ "download_s3file" \notin invoked
\* the put branch took lines 1084-1085 instead of the upload
SkippedPut ==
    /\ "upload_s3file" \notin invoked
    /\ pc \in {"ensure_tags", "tag_mutate", "wait_tags_are_applied", "get_download_url", "done"}
    /\ cont = "get_download_url"
    /\ Succeeded => result.msg = "Download url:"

\* C1: with overwrite=always outside check mode, once the parameter and
\* existence checks have passed, mode=get calls download_file and mode=put
\* calls upload_file/upload_fileobj, and every successful result reports
\* changed=true.
C1_AlwaysTransfers ==
    (params.mode \in {"get", "put"} /\ params.overwrite \in {"always", "yes"}
       /\ ~params.check_mode) =>
        /\ Succeeded => result.changed = "True"
        /\ (Succeeded /\ params.mode = "get") => "download_file" \in calls
        /\ (Succeeded /\ params.mode = "put") => calls \cap Uploads # {}
        /\ pc \notin {"get_etag", "etag_compare", "is_local_object_latest"}

\* C2: with overwrite=never (or a false boolean), mode=get with an existing
\* dest has ended with changed=false without get_object or download_file, and
\* mode=put with an existing remote key never calls upload_file/upload_fileobj
\* and takes the existing-object exit.
C2_NeverNoTransfer ==
    params.overwrite \in {"never", "no"} =>
        /\ (params.mode = "get" /\ dest_exists) =>
              /\ SkippedGet("Local object already exists and overwrite is disabled.")
              /\ calls \cap {"get_object", "download_file"} = {}
        /\ (params.mode = "put" /\ keyrtn = "True") =>
              /\ calls \cap Uploads = {}
              /\ pc # "put_decide" => SkippedPut
C2_Witness ==
    /\ params.overwrite = "no"
    /\ params.mode = "get"
    /\ dest_exists
    /\ Succeeded

\* etag_compare has returned to main with both fingerprints in hand
Compared ==
    /\ "etag_compare" \in invoked
    /\ pc \notin {"get_etag", "etag_compare"}
    /\ ~IsNone(s3_etag)
    /\ ~IsNone(local_etag)

\* C3: with overwrite=different and both sides present, the transfer is
\* skipped (get: exit with changed=false; put: the existing-object exit, no
\* upload) if and only if the local ETag token equals the remote ETag token
\* field for field, quoting included; otherwise control goes on to the transfer.
C3_DifferentIffEtagsDiffer ==
    (params.overwrite = "different" /\ Compared) =>
        IF The(s3_etag) = The(local_etag)
        THEN IF params.mode = "get"
             THEN SkippedGet("Local and remote object are identical, ignoring. Use overwrite=always parameter to force.")
             ELSE SkippedPut
        ELSE IF params.mode = "get" THEN DownloadIssued ELSE UploadIssued
C3_Witness ==
    /\ params.overwrite = "different"
    /\ params.mode = "get"
    /\ Compared
    /\ The(s3_etag).digest = The(local_etag).digest
    /\ ~The(s3_etag).quoted
    /\ "get_object" \in calls

\* C4: in mode=get with overwrite=latest and an existing dest, the run ends
\* with changed=false and no download exactly when the local modification
\* time is >= the remote LastModified; a strictly newer remote goes on to
\* download_s3file.
C4_LatestIffLocalNotOlder ==
    (params.mode = "get" /\ params.overwrite = "latest" /\ dest_exists
     /\ ~IsNone(s3_last_modified)) =>
        IF The(local_last_modified) >= The(s3_last_modified)
        THEN SkippedGet("Local object is latest, ignoreing. Use overwrite=always parameter to force.")
        ELSE DownloadIssued
C4_Witness ==
    /\ params.mode = "get"
    /\ params.overwrite = "latest"
    /\ dest_exists
    /\ ~IsNone(s3_last_modified)
    /\ The(local_last_modified) = The(s3_last_modified)
    /\ Succeeded

\* C5: overwrite=latest with mode=put is rejected: the run (here outside
\* check mode, on an existing remote key) never compares ETags, never enters
\* upload_s3file, and can only end in a failure.
C5_LatestPutRejected ==
    (params.mode = "put" /\ params.overwrite = "latest" /\ ~params.check_mode
     /\ keyrtn = "True") =>
        /\ "etag_compare" \notin invoked
        /\ "upload_s3file" \notin invoked
        /\ Done => result.outcome = "fail"

\* C6: overwrite=different without MD5 support ends in a failure before any
\* remote call: no connection, no head_bucket, no head_object, no mutating call.
C6_NoMd5FailsBeforeCalls ==
    (params.overwrite = "different" /\ ~HAS_MD5) =>
        /\ calls = {}
        /\ pc \in {"main", "done"}
        /\ Done => result.outcome = "fail"
C6_Witness ==
    /\ params.overwrite = "different"
    /\ ~HAS_MD5
    /\ result = FailJson("overwrite=different is unavailable: ETag calculation requires MD5 support")

\* C7: in mode=get and mode=put with overwrite always or never (booleans
\* included), etag_compare, get_etag, get_s3_last_modified_timestamp and
\* is_local_object_latest are never entered.
C7_NoComparisonReads ==
    (params.mode \in {"get", "put"} /\ params.overwrite \in {"always", "never", "yes", "no"}) =>
        invoked \cap Comparisons = {}
C7_Witness ==
    /\ params.overwrite = "always"
    /\ params.mode = "put"
    /\ keyrtn = "True"
    /\ calls \cap Uploads # {}
    /\ Succeeded

\* C8: the second of two applications of ensure_tags with the same tags and
\* purge_tags issues no put_object_tagging or delete_object_tagging and
\* returns changed=false.
C8_TagsIdempotent ==
    Len(applications) = 2 =>
        /\ ~applications[2].changed
        /\ applications[2].calls \cap TagWrites = {}
        /\ applications[2].tags = applications[1].tags
C8_Witness ==
    /\ Len(applications) = 2
    /\ applications[1].changed
    /\ ~params.purge_tags
    /\ DOMAIN applications[1].read \ DOMAIN The(params.tags) # {}

\* C9: with purge_tags=false, a tag set written by ensure_tags has every key
\* of the object's current tag set; a current key absent from the desired
\* tags keeps its value, a key of the desired tags has the desired value, and
\* delete_object_tagging is never called.
C9_MergeKeepsCurrent ==
    (~params.purge_tags /\ ~IsNone(pending_tags)) =>
        LET written == The(pending_tags)
            desired == The(params.tags) IN
        /\ DOMAIN remote_tags \subseteq DOMAIN written
        /\ \A k \in DOMAIN remote_tags \ DOMAIN desired : written[k] = remote_tags[k]
        /\ \A k \in DOMAIN desired : written[k] = desired[k]
        /\ "delete_object_tagging" \notin calls
C9_Witness ==
    /\ ~params.purge_tags
    /\ ~IsNone(pending_tags)
    /\ DOMAIN remote_tags \ DOMAIN The(params.tags) # {}
    /\ \E k \in DOMAIN remote_tags \cap DOMAIN The(params.tags) :
          remote_tags[k] # The(params.tags)[k]

\* C10: with purge_tags=true and a non-empty desired tag set, a write by
\* ensure_tags is put_object_tagging of exactly the desired set, and an
\* application that read a different current set returns changed=true and
\* tags equal to the desired set.
C10_PurgeReplaces ==
    (params.purge_tags /\ ~IsNone(params.tags) /\ The(params.tags) # EmptyTags) =>
        /\ ~IsNone(pending_tags) => The(pending_tags) = The(params.tags)
        /\ "delete_object_tagging" \notin calls
        /\ (Len(applications) >= 1 /\ applications[1].read # The(params.tags)) =>
              /\ applications[1].changed
              /\ applications[1].tags = The(params.tags)
              /\ "put_object_tagging" \in applications[1].calls
C10_Witness ==
    /\ params.purge_tags
    /\ ~IsNone(params.tags)
    /\ The(params.tags) # EmptyTags
    /\ Len(applications) >= 1
    /\ DOMAIN applications[1].read \ DOMAIN The(params.tags) # {}
    /\ applications[1].changed

\* Side checks of C1's divergence: the claim holds of mode=put, and of
\* mode=get whenever retries >= 0.
C1_HoldsForPut ==
    params.mode = "put" => C1_AlwaysTransfers
C1_HoldsForRetriesGE0 ==
    params.retries >= 0 => C1_AlwaysTransfers

\* C11: with tags={} and purge_tags=true on an object that has tags,
\* ensure_tags calls delete_object_tagging and never put_object_tagging; when
\* it returns the object has no tags and changed=true.
C11_PurgeEmptyDeletes ==
    (params.purge_tags /\ params.tags = Some(EmptyTags)) =>
        /\ "put_object_tagging" \notin calls
        /\ (pc = "wait_tags_are_applied" /\ Len(applications) = 0) =>
              "delete_object_tagging" \in calls
        /\ (Len(applications) >= 1 /\ applications[1].read # EmptyTags) =>
              /\ applications[1].changed
              /\ applications[1].tags = EmptyTags
              /\ "delete_object_tagging" \in applications[1].calls
              /\ remote_tags = EmptyTags
C11_Witness ==
    /\ params.purge_tags
    /\ params.tags = Some(EmptyTags)
    /\ Len(applications) >= 1
    /\ applications[1].read # EmptyTags
    /\ applications[1].changed

\* the tag set ensure_tags aims at equals the tag set it read
TargetIsCurrent(read) ==
    IF params.purge_tags
    THEN read = The(params.tags)
    ELSE \A k \in DOMAIN The(params.tags) :
            k \in DOMAIN read /\ read[k] = The(params.tags)[k]

\* C12: when no tags parameter is given, or the target tag set equals the
\* current one, an application of ensure_tags makes exactly one read, no
\* put_object_tagging or delete_object_tagging, no poll, and returns the tags
\* it read with changed=false.
C12_NoChangeNoCall ==
    \A n \in 1 .. Len(applications) :
        (IsNone(params.tags) \/ TargetIsCurrent(applications[n].read)) =>
            /\ ~applications[n].changed
            /\ applications[n].calls = {"get_object_tagging"}
            /\ applications[n].polls = 0
            /\ applications[n].tags = applications[n].read
C12_Witness ==
    /\ Len(applications) >= 1
    /\ ~IsNone(params.tags)
    /\ The(params.tags) # EmptyTags
    /\ ~params.purge_tags
    /\ DOMAIN applications[1].read \ DOMAIN The(params.tags) # {}
    /\ TargetIsCurrent(applications[1].read)

TagsTimeout == FailJson("Object tags failed to apply in the expected time.")
TagsReadFailed == FailJson("Failed to get object tags.")

\* C13: wait_tags_are_applied ends after at most 12 reads: every pass either
\* leaves the loop or counts one more read, the count never passes 12, a
\* return hands back a tag set equal to the target, and the failure after 12
\* differing reads is 'Object tags failed to apply in the expected time.',
\* another message than that of a failed read.
C13_PollInv ==
    /\ et.polls <= TagPolls
    /\ pc = "wait_tags_are_applied" => et.polls < TagPolls
    /\ result = TagsTimeout => /\ et.polls = TagPolls
                               /\ remote_tags # The(et.tags)
    /\ (result.outcome = "fail" /\ et.polls \in 1 .. TagPolls - 1) => result = TagsReadFailed
    /\ TagsTimeout # TagsReadFailed
    /\ \A n \in 1 .. Len(applications) :
          applications[n].changed =>
              /\ applications[n].polls \in 1 .. TagPolls
              /\ applications[n].tags =
                    IF params.purge_tags THEN The(params.tags)
                    ELSE [k \in DOMAIN applications[n].read \cup DOMAIN The(params.tags) |->
                             IF k \in DOMAIN The(params.tags) THEN The(params.tags)[k]
                             ELSE applications[n].read[k]]
C13_PollStep ==
    pc = "wait_tags_are_applied" =>
        \/ pc' # "wait_tags_are_applied"
        \/ et'.polls = et.polls + 1
C13_PollsTerminate == []C13_PollInv /\ [][C13_PollStep]_vars
C13_Witness ==
    /\ result = TagsTimeout
    /\ et.polls = TagPolls
    /\ "put_object_tagging" \in calls

DownloadFailures == {FailJson("Failed while downloading."), FailJson("s3 download failed")}

\* C14: in mode=get outside check mode, for every retries value,
\* download_file is attempted at most retries+1 times, a download failure is
\* reported only when attempt number retries+1 has failed, and a run that
\* went into the download ends successfully only with a download_file call
\* that succeeded ('GET operation complete', changed=true).
C14_DownloadRetries ==
    (params.mode = "get" /\ ~params.check_mode) =>
        /\ transfers <= params.retries + 1
        /\ result \in DownloadFailures => transfers = params.retries + 1
        /\ (Succeeded /\ "get_object" \in calls) =>
              /\ "download_file" \in calls
              /\ result = ExitJson("GET operation complete", TRUE)

\* what remains true of C14: for retries >= 0 the statement holds as written
C14_HoldsForRetriesGE0 ==
    params.retries >= 0 => C14_DownloadRetries

UploadFailure == FailJson("Unable to complete PUT operation.")

\* C15: a transport error during the bulk transfer is retried up to retries
\* times: a download failure (mode get) or an upload failure (mode put) is
\* reported only after retries+1 attempts of the transfer.
C15_RetryOnlyTransfer ==
    /\ (params.mode = "get" /\ result \in DownloadFailures) =>
          transfers = params.retries + 1
    /\ (params.mode = "put" /\ result = UploadFailure) =>
          transfers = params.retries + 1

\* what remains true of C15: the download of mode=get is retried as stated
C15_HoldsForGet ==
    params.mode = "get" => C15_RetryOnlyTransfer

\* C16: after a NotImplemented answer to an optional capability call the run
\* is not aborted by it and, where it succeeds, ends in the mode's normal
\* result: no uncaught exception, and no success by way of the bare
\* exit_json(failed=False) of line 1196.
C16_NotImplementedContinues ==
    (Done /\ warnings # {}) =>
        /\ result.outcome # "crash"
        /\ Succeeded => result.msg # ""

\* what remains true of C16: in create_bucket, create_dirkey and upload_s3file
\* the warning is followed by the normal continuation
C16_HoldsForAclWarnings ==
    (params.mode # "copy" /\ "GetObjectTagging" \notin warnings) =>
        C16_NotImplementedContinues
C16_TagsWarningCrashes ==
    (Done /\ "GetObjectTagging" \in warnings) => result = Crash("UnboundLocalError")
C16_CopyWarningFallsThrough ==
    (Done /\ params.mode = "copy" /\ "PutObjectAcl" \in warnings) =>
        result = [outcome |-> "exit", changed |-> "absent", msg |-> ""]

\* the client methods that change the store
Mutating == {"create_bucket", "put_bucket_acl", "put_object", "put_object_acl",
             "upload_file", "upload_fileobj", "copy_object", "delete_object",
             "delete_objects", "delete_bucket", "put_object_tagging",
             "delete_object_tagging"}
FallThrough == [outcome |-> "exit", changed |-> "absent", msg |-> ""]

\* C17: a run that reports success after a mutating call has completed its
\* mutation sequence: it says changed=true, and the tags step that follows a
\* copy, an upload or a put_object has been entered.
C17_AllOrFailure ==
    Succeeded =>
        /\ calls \cap Mutating # {} => result.changed = "True"
        /\ calls \cap (Uploads \cup {"copy_object", "put_object"}) # {} =>
              "ensure_tags" \in invoked

\* what remains true of C17: every run ends in one outcome, and outside
\* modes copy and delete a success after a mutating call is a complete one
C17_HoldsOutsideCopyAndDelete ==
    params.mode \notin {"copy", "delete"} => C17_AllOrFailure

\* parameters that one of the module's validation checks rejects
InvalidParams ==
    \/ \E n \in 1 .. Len(params.permission) :
          params.permission[n] \notin bucket_canned_acl \cup object_canned_acl
    \/ params.mode = "delete" /\ params.object = Some("key")
    \/ params.rgw /\ IsNone(params.s3_url)
    \/ params.dualstack /\ ~IsNone(params.s3_url) /\ params.s3_url # Some(AwsUrl)
    \/ params.mode = "put" /\ params.src_kind = "none"
    \/ params.mode = "delobj" /\ IsNone(params.object)
    \/ params.overwrite = "different" /\ ~HAS_MD5
ValidationFailures ==
    {FailJson("Unknown permission specified"),
     FailJson("Parameter obj cannot be used with mode=delete"),
     FailJson("rgw flavour requires s3_url"),
     FailJson("dualstack only applies to AWS S3"),
     FailJson("Either content, content_base64 or src must be specified for PUT operations"),
     FailJson("Local object does not exist for PUT operation"),
     FailJson("object parameter is required"),
     FailJson("overwrite=different is unavailable: ETag calculation requires MD5 support")}

\* C18: a run whose parameters a validation check rejects never issues a
\* mutating remote call, and whenever a validation failure is the result no
\* mutating call has been issued.
C18_ValidationBeforeMutation ==
    /\ InvalidParams => calls \cap Mutating = {}
    /\ result \in ValidationFailures => calls \cap Mutating = {}
    /\ (Done /\ InvalidParams) => result.outcome = "fail"
C18_Witness ==
    /\ result = FailJson("Parameter obj cannot be used with mode=delete")
    /\ params.mode = "delete"
    /\ ~params.check_mode

\* mode=put with overwrite=different has compared the ETag of the existing
\* remote key with the local one and found the two tokens the same
PutEtagsSame ==
    /\ params.mode = "put"
    /\ overwrite = "different"
    /\ keyrtn = "True"
    /\ pc \notin {"get_etag", "etag_compare"}
    /\ ~IsNone(s3_etag)
    /\ ~IsNone(local_etag)
    /\ The(s3_etag) = The(local_etag)

\* C19 as stated: in mode=put with overwrite=different, the remote key
\* existing and the two ETags equal, no upload is issued and a successful
\* result reports changed=false.
C19_SameEtagUnchanged ==
    PutEtagsSame =>
        /\ calls \cap Uploads = {}
        /\ Succeeded => result.changed = "False"

\* C19 amended: in mode=put with overwrite=different, the remote key existing
\* and the two ETags equal, upload_s3file is never entered and no upload is
\* issued; a successful result is the 'Download url:' exit, whose changed is
\* true exactly when ensure_tags wrote the object's tags and false otherwise.
C19_SameEtagNoUpload ==
    PutEtagsSame =>
        /\ calls \cap Uploads = {}
        /\ "upload_s3file" \notin invoked
        /\ pc # "upload_s3file"
        /\ Succeeded =>
              /\ result.msg = "Download url:"
              /\ result.changed = "True" <=> calls \cap TagWrites # {}
              /\ result.changed = "False" <=> calls \cap TagWrites = {}
C19_Witness ==
    /\ PutEtagsSame
    /\ Succeeded
    /\ ~params.check_mode
    /\ result = ExitJson("Download url:", FALSE)
C19_WitnessTagsWritten ==
    /\ PutEtagsSame
    /\ Succeeded
    /\ result = ExitJson("Download url:", TRUE)

\* C20: with nothing to compare against the transfer proceeds whatever the
\* overwrite policy: the step of mode=get that finds dest absent goes on to
\* download_s3file, the step of mode=put that has no existing remote key (it
\* is absent, or the bucket had to be created) goes on to upload_s3file, and
\* outside check mode those functions issue get_object and the upload.
C20_Step ==
    /\ (pc = "get_decide" /\ ~dest_exists') => pc' = "download_s3file"
    /\ (pc = "put_decide" /\ keyrtn # "True") => pc' = "upload_s3file"
    /\ (pc = "download_s3file" /\ ~params.check_mode) => "get_object" \in calls'
    /\ (pc = "upload_s3file" /\ ~params.check_mode) => calls' \cap Uploads # {}
C20_NothingToCompareProceeds == [][C20_Step]_vars
C20_Witness ==
    /\ params.mode = "get"
    /\ overwrite = "never"
    /\ ~dest_exists
    /\ "download_file" \in calls
C20_WitnessPut ==
    /\ params.mode = "put"
    /\ overwrite \in {"never", "different", "latest"}
    /\ keyrtn = "None"
    /\ "create_bucket" \in calls
    /\ calls \cap Uploads # {}

\* C21: in mode=get, geturl and getstr a 404 answer to the head_object
\* existence check ends the run with the failure 'Key does not exist.' and no
\* get_object, download_file or presigned-URL call has been issued; with
\* ignore_nonexistent_bucket=false a missing bucket fails earlier, with
\* 'Source bucket cannot be found.', before any head_object is issued.
Retrievals == {"get_object", "download_file", "generate_presigned_url"}
C21_MissingKeyFails ==
    params.mode \in {"get", "geturl", "getstr"} =>
        /\ keyrtn = "False" =>
              /\ Done
              /\ result = FailJson("Key does not exist.")
              /\ calls \cap Retrievals = {}
        /\ result = FailJson("Source bucket cannot be found.") =>
              /\ validate
              /\ ~bucketrtn
              /\ "head_object" \notin calls
        /\ (validate /\ "head_object" \in calls) => bucketrtn
C21_Witness ==
    /\ params.mode = "geturl"
    /\ keyrtn = "False"
    /\ Done
C21_WitnessGetstr ==
    /\ params.mode = "getstr"
    /\ keyrtn = "False"
    /\ Done
C21_WitnessBucket ==
    /\ params.mode = "getstr"
    /\ result = FailJson("Source bucket cannot be found.")

\* C22: in mode=list the s3_keys of a completed listing holds at most max_keys
\* keys, each of them beginning with prefix and coming after marker, in
\* alphabetical order, however many matching keys the bucket holds.
Listed == params.mode = "list" /\ Succeeded /\ result.msg = "LIST operation complete"
C22_FiltersAndOrders ==
    Listed =>
        /\ \A n \in 1 .. Len(s3_keys) :
              /\ s3_keys[n] \in bucket_keys
              /\ StartsWith(s3_keys[n], prefix)
              /\ Less(marker, s3_keys[n])
        /\ \A n \in 1 .. Len(s3_keys) - 1 : Less(s3_keys[n], s3_keys[n + 1])
C22_ListBounded ==
    /\ C22_FiltersAndOrders
    /\ Listed => Len(s3_keys) <= max_keys
\* what list_keys returns instead: every matching key of the bucket
C22_ReturnsEveryMatch ==
    Listed => Len(s3_keys) = Cardinality(Matching(prefix, marker))
C22_MoreThanMaxKeys ==
    /\ Listed
    /\ Len(s3_keys) > max_keys

\* C23: the remote fingerprint or timestamp is read for a comparison
\* (etag_compare, is_local_object_latest) only after head_object has shown,
\* in the same run, that the remote object exists; an object whose existence
\* was not confirmed is never taken to the comparison, and a fingerprint that
\* get_etag does not find (404) sends the run on to the transfer.
AtComparison ==
    \/ pc \in {"get_etag", "etag_compare", "is_local_object_latest"}
    \/ invoked \cap Comparisons # {}
C23_Confirmed == (params.mode \in {"get", "put"} /\ AtComparison) => key_found
C23_NotFoundStep ==
    (pc = "etag_compare" /\ IsNone(s3_etag)) =>
        pc' \in {"download_s3file", "upload_s3file"}
C23_ConfirmedBeforeCompare == []C23_Confirmed /\ [][C23_NotFoundStep]_vars
\* what holds: key_check returned True before every comparison, which is a
\* found object whenever ignore_nonexistent_bucket is off
C23_KeyCheckBeforeCompare ==
    (params.mode \in {"get", "put"} /\ AtComparison) =>
        /\ keyrtn = "True"
        /\ validate => key_found
\* and with MD5 support a fingerprint not found is followed by the transfer
C23_NotFoundProceedsWithMD5 == [][HAS_MD5 => C23_NotFoundStep]_vars
\* a 403 answer to key_check taken as an existing object and compared
C23_UnconfirmedCompared ==
    /\ params.mode = "get"
    /\ ~key_found
    /\ "etag_compare" \in invoked
\* None == None: remote fingerprint not found, local one not computable
C23_NotFoundSkipsUpload ==
    /\ params.mode = "put"
    /\ "get_etag" \in invoked
    /\ IsNone(s3_etag)
    /\ pc = "ensure_tags"
    /\ "upload_s3file" \notin invoked

\* C24: in check mode no run, in any mode and under any overwrite / tags
\* parameters, issues a mutating remote call (create_bucket, put_object, an
\* upload, copy_object, delete_object(s), delete_bucket, put or delete object
\* tagging, a put ACL) and none writes the local file (download_file).
C24_CheckModeMutatesNothing ==
    params.check_mode =>
        /\ calls \cap Mutating = {}
        /\ "download_file" \notin calls
\* outside the skip branch of mode=put (lines 1082-1085) the statement holds
C24_HoldsOutsidePutSkip ==
    (params.check_mode /\ ~(params.mode = "put" /\ "ensure_tags" \in invoked)) =>
        /\ calls \cap Mutating = {}
        /\ "download_file" \notin calls
\* in that branch only the tags of the existing object are written
C24_OnlyTagsWritten ==
    params.check_mode => calls \cap Mutating \subseteq TagWrites
C24_TagsWrittenInCheckMode ==
    /\ params.check_mode
    /\ params.mode = "put"
    /\ calls \cap TagWrites # {}

\* C25: in mode=copy a missing source key ends the run with changed=false
\* and copy_object never called; equal source and destination ETags leave
\* copy_object uncalled, with changed true only if ensure_tags changed the
\* tags; otherwise copy_object is called exactly once, before any
\* put_object_acl or tag call, and the result reports changed=true.
SourceMissing == result.msg = "Key does not exist in bucket"
SameEtags == cont = "copy_same"
C25_Paths ==
    params.mode = "copy" =>
        /\ SourceMissing => (result.changed = "False" /\ "copy_object" \notin calls)
        /\ SameEtags => /\ "copy_object" \notin calls
                        /\ result.changed = "True" => et.changed
        /\ pc = "copy_object" =>
              calls \cap ({"copy_object", "put_object_acl", "get_object_tagging"}
                              \cup TagWrites) = {}
C25_CopiedIsChanged ==
    (params.mode = "copy" /\ Succeeded /\ "copy_object" \in calls) =>
        result.changed = "True"
C25_Once ==
    /\ pc = "copy_object" => "copy_object" \in calls'
    /\ "copy_object" \in calls => pc' # "copy_object"
C25_CopyOutcomes == [](C25_Paths /\ C25_CopiedIsChanged) /\ [][C25_Once]_vars
\* everything but the changed=true of a run that copied holds
C25_HoldsButChanged == []C25_Paths /\ [][C25_Once]_vars
\* and that holds too unless the store answered NotImplemented
C25_ChangedWithoutWarning ==
    warnings = {} => C25_CopiedIsChanged
C25_CopiedUnchanged ==
    /\ params.mode = "copy"
    /\ "copy_object" \in calls
    /\ result = FallThrough
    /\ Done

\* C26: in mode=delete outside check mode delete_bucket is called only after
\* delete_objects has been issued for every non-empty page of the listing;
\* when bucket_check finds no bucket no delete call is issued and the run
\* ends successfully without changed=true; changed=true is reported only
\* when the delete_bucket call succeeded.
Deletes == {"delete_object", "delete_objects", "delete_bucket"}
C26_Inv ==
    (params.mode = "delete" /\ ~params.check_mode) =>
        /\ (pc \in {"list_object_versions", "delete_bucket_call"}
               \/ "delete_bucket" \in calls) => deleted = nonempty
        /\ "delete_bucket" \in calls => pages >= 1
        /\ bucket_exists = "False" =>
              /\ calls \cap Deletes = {}
              /\ pc \in {"main_end", "done"}
              /\ Done => (Succeeded /\ result.changed # "True")
        /\ result.changed = "True" =>
              /\ "delete_bucket" \in calls
              /\ result = ExitJson("Bucket and all keys have been deleted.", TRUE)
C26_Step ==
    (params.mode = "delete" /\ ~params.check_mode) =>
        /\ nonempty' > nonempty => (pc' = "delete_objects" /\ "delete_bucket" \notin calls')
        /\ (result'.changed = "True" /\ result.changed # "True") =>
              pc = "delete_bucket_call"
C26_DeleteOrder == []C26_Inv /\ [][C26_Step]_vars
C26_Witness ==
    /\ params.mode = "delete"
    /\ ~params.check_mode
    /\ nonempty = MaxPages
    /\ deleted = MaxPages
    /\ result = ExitJson("Bucket and all keys have been deleted.", TRUE)
C26_WitnessNoBucket ==
    /\ params.mode = "delete"
    /\ bucket_exists = "False"
    /\ Done

\* C27: mode=create is idempotent. A run that finds the bucket, and no object
\* is given, or finds the bucket and the directory key, issues no
\* create_bucket or put_object call and reports changed=false; so the second
\* of two identical create invocations, the first of which succeeded, always
\* reports changed=false.
Creations == {"create_bucket", "put_object"}
Found ==
    /\ bucketrtn
    /\ pc # "create"
    /\ ~Truthy(params.object) \/ keyrtn = "True"
C27_ExistingUntouched ==
    (params.mode = "create" /\ Found) =>
        /\ calls \cap Creations = {}
        /\ Done
        /\ result.outcome = "exit"
        /\ result.changed = "False"
C27_SecondUnchanged ==
    (Second /\ Done) => (result.changed = "False" /\ calls \cap Creations = {})
C27_Idempotent == C27_ExistingUntouched /\ C27_SecondUnchanged
\* which holds unless the first invocation ran in check mode or met a
\* NotImplemented answer
C27_IdempotentWhenRealised ==
    (Second /\ Done /\ ~params.check_mode /\ applications[1].warnings = {}) =>
        (result.changed = "False" /\ calls \cap Creations = {})
C27_CheckModeTwice ==
    /\ Second
    /\ Done
    /\ params.check_mode
    /\ applications[1].result.changed = "True"
    /\ result.changed = "True"
C27_CreatedTwice ==
    /\ Second
    /\ Done
    /\ ~params.check_mode
    /\ applications[1].result = ExitJson("Bucket created successfully", TRUE)
    /\ result = ExitJson("Bucket created successfully", TRUE)
C27_SecondFindsAll ==
    /\ Second
    /\ Done
    /\ applications[1].result = ExitJson("Virtual directory created in bucket", TRUE)
    /\ result = ExitJson("Bucket and key already exists.", FALSE)

====
